---- MODULE Spec2Model ----
(***************************************************************************)
(* Soluna Dial: the HUD instance (class SolunaDial), its scene graph, the  *)
(* settings registry that drives its setters, and the host events it       *)
(* reacts to (ready, world time, calendar, socket, setting changes,        *)
(* deferred callbacks, the GM's weather dialog).                           *)
(*                                                                         *)
(* Units.  JavaScript numbers are kept as integers in a fixed unit:        *)
(*   opacities, UI scale, image scale : hundredths (0.7 is 70)             *)
(*   pixel sizes rounded by Math.round : pixels                            *)
(*   DIAL_RADIUS                       : tenths of a pixel  (x * 0.8)      *)
(*   DIAL_CENTER_X                     : halves of a pixel  (x / 2)        *)
(*   angles                            : degrees                           *)
(*   rotation                          : 1/240 degree (one second of the   *)
(*                                       24 h dial turn)                   *)
(* JavaScript strings are sequences of one-character strings, so that      *)
(* toUpperCase, toLowerCase and trim are computed.                         *)
(***************************************************************************)
EXTENDS Integers, Sequences, FiniteSets, TLC

VARIABLES isGM, gameReady, api, hud, settings, worldTime, calendar, scHook,
          dialog, net, lastOp, ops

vars == <<isGM, gameReady, api, hud, settings, worldTime, calendar, scHook,
          dialog, net, lastOp, ops>>

(***************************************************************************)
(* JavaScript values                                                       *)
(***************************************************************************)
Num(n) == [t |-> "number", v |-> n]
NaN == [t |-> "NaN", v |-> 0]
Str(s) == [t |-> "string", v |-> s]
Bool(b) == [t |-> "boolean", v |-> b]
Undefined == [t |-> "undefined", v |-> 0]

\* typeof v
TypeOf(v) == IF v.t = "NaN" THEN "number" ELSE v.t

\* !!v
Truthy(v) ==
  CASE v.t = "number" -> v.v # 0
    [] v.t = "NaN" -> FALSE
    [] v.t = "string" -> v.v # <<>>
    [] v.t = "boolean" -> v.v
    [] OTHER -> FALSE

\* a null object reference
Null == [null |-> TRUE]

LowerCaseLetters == <<"a","b","c","d","e","f","g","h","i","j","k","l","m",
                      "n","o","p","q","r","s","t","u","v","w","x","y","z">>
UpperCaseLetters == <<"A","B","C","D","E","F","G","H","I","J","K","L","M",
                      "N","O","P","Q","R","S","T","U","V","W","X","Y","Z">>

IndexIn(c, letters) ==
  IF \E i \in 1..Len(letters) : letters[i] = c
  THEN CHOOSE i \in 1..Len(letters) : letters[i] = c
  ELSE 0

\* String.prototype.toUpperCase
toUpperCase(s) ==
  [i \in 1..Len(s) |->
     IF IndexIn(s[i], LowerCaseLetters) # 0
     THEN UpperCaseLetters[IndexIn(s[i], LowerCaseLetters)]
     ELSE s[i]]

\* String.prototype.toLowerCase
toLowerCase(s) ==
  [i \in 1..Len(s) |->
     IF IndexIn(s[i], UpperCaseLetters) # 0
     THEN LowerCaseLetters[IndexIn(s[i], UpperCaseLetters)]
     ELSE s[i]]

\* String.prototype.trim
RECURSIVE trimStart(_)
trimStart(s) == IF s # <<>> /\ Head(s) = " " THEN trimStart(Tail(s)) ELSE s
RECURSIVE trimEnd(_)
trimEnd(s) ==
  IF s # <<>> /\ s[Len(s)] = " " THEN trimEnd(SubSeq(s, 1, Len(s) - 1)) ELSE s
trim(s) == trimEnd(trimStart(s))

\* Math.round(base * scale) for scale in hundredths, base * scale >= 0
RoundScaled(base, scale) == (2 * base * scale + 100) \div 200

\* a variant without the floor: the scaled value as it is
scaledValue(a, b) == b

Max(a, b) == IF a >= b THEN a ELSE b

\* JavaScript a % b for b > 0: the result takes the sign of the dividend
JsRem(a, b) == IF a >= 0 THEN a % b ELSE -((-a) % b)

\* Math.floor(a / b) for b > 0
FloorDiv(a, b) == a \div b

(***************************************************************************)
(* Program constants                                                       *)
(***************************************************************************)
BASE_HUD_WIDTH == 400
BASE_PRIMARY_FONT_SIZE == 18
BASE_ICON_FONT_SIZE == 18
BASE_TIME_BAR_TEXT_TOP_PADDING == 7
BASE_TIME_BAR_TEXT_BOTTOM_PADDING == 7
BASE_MAIN_HUD_AREA_HEIGHT == 150
BASE_CORNER_RADIUS == 15
BASE_PADDING == 10
BASE_BUTTON_PADDING == 5
BASE_MARKER_SIZE == 10
BASE_WEATHER_TEXT_PADDING_TOP == 5
MARKER_COLOR == 16777215
DEFAULT_FONT_FAMILY == <<"S","i","g","n","i","k","a">>
DEFAULT_WEATHER == <<"C","L","E","A","R">>
LocalUser == "u1"
PeerUser == "u2"

(***************************************************************************)
(* The instance: the fields the constructor initialises (lines 17-100),    *)
(* the pending one-shot callbacks bound to it, and its scene graph.        *)
(* A display object is <<kind, serial>>; `children` is the child list of   *)
(* the main container, in rendering order (last is topmost).               *)
(***************************************************************************)
BlankHud ==
  [ globalUiScale |-> 100,
    HUD_WIDTH |-> 0, primaryFontSize |-> 0, calendarFontSize |-> 0,
    iconFontSize |-> 0, TIME_BAR_TEXT_TOP_PADDING |-> 0,
    TIME_BAR_TEXT_BOTTOM_PADDING |-> 0, TIME_BAR_HEIGHT |-> 0,
    MAIN_HUD_AREA_HEIGHT |-> 0, TOTAL_HUD_HEIGHT |-> 0, CORNER_RADIUS |-> 0,
    PADDING |-> 0, BUTTON_PADDING |-> 0, DIAL_CENTER_X |-> 0,
    DIAL_RADIUS |-> 0, MAIN_HUD_AREA_Y_OFFSET |-> 0, DIAL_ARC_CENTER_Y |-> 0,
    MARKER_SIZE |-> 0, weatherTextPaddingTop |-> 0,
    pixiApp |-> Null, mainContainer |-> FALSE,
    timeCalendarContainer |-> Null, timeText |-> Null,
    timeCalendarSeparator |-> Null, calendarText |-> Null,
    timeBarGraphic |-> Null, mainHudAreaGraphic |-> Null,
    radialDialBackground |-> Null, dialMarker |-> Null, weatherText |-> Null,
    currentWeather |-> DEFAULT_WEATHER,
    topBarOpacity |-> 70, dialImageOpacity |-> 100,
    dialMarkerColor |-> Num(MARKER_COLOR), dialMarkerOpacity |-> 100,
    globalFontFamily |-> DEFAULT_FONT_FAMILY,
    globalFontOpacity |-> 100, displaySeconds |-> FALSE,
    rewindHourButton |-> Null, rewindDayButton |-> Null,
    advanceHourButton |-> Null, advanceDayButton |-> Null,
    dialGradientSprite |-> Null, dialMask |-> Null,
    dialGradientContainer |-> Null, dialInteractiveArea |-> Null,
    cssTopPadding |-> <<>>,
    children |-> <<>>, destroyed |-> {}, nextId |-> 1,
    pendingEnsureTop |-> 0, pendingLoadWeather |-> 0,
    warned |-> FALSE, exc |-> FALSE ]

Remove(seq, x) == SelectSeq(seq, LAMBDA y : y # x)

\* PIXI Container.addChild: the child leaves its former place and is appended
addChild(children, id) == Append(Remove(children, id), id)

\* PIXI Container.setChildIndex for a present child and an index in range
setChildIndex(children, id, index) ==
  LET rest == Remove(children, id)
  IN  SubSeq(rest, 1, index) \o <<id>> \o SubSeq(rest, index + 1, Len(rest))

\* PIXI DisplayObject.destroy: the object leaves its parent and is dead
\* the objects the given fields hold
idsOf(h, fields) ==
  UNION {IF h[f] = Null THEN {} ELSE {h[f].id} : f \in fields}

destroyNode(h, node) ==
  IF node = Null THEN h
  ELSE [h EXCEPT !.children = Remove(@, node.id),
                 !.destroyed = @ \cup {node.id}]

\* a method body m run on the receiver: the receiver is evaluated once
Call(this, m(_)) == CHOOSE result \in {m(h) : h \in {this}} : TRUE

\* the handler sequence stops at an uncaught exception
Then(this, F(_)) == Call(this, LAMBDA h : IF h.exc THEN h ELSE F(h))

\* _calculateScaledDimensions
\* a variant that leaves the dimensions as they were
keepDimensions(this) == this

calculateScaledDimensions(this) ==
  Call(this, LAMBDA h :
    LET scale == h.globalUiScale
        primary == Max(8, RoundScaled(BASE_PRIMARY_FONT_SIZE, scale))
        top == RoundScaled(BASE_TIME_BAR_TEXT_TOP_PADDING, scale)
        bottom == RoundScaled(BASE_TIME_BAR_TEXT_BOTTOM_PADDING, scale)
        barHeight == top + primary + bottom
        mainHeight == RoundScaled(BASE_MAIN_HUD_AREA_HEIGHT, scale)
        padding == RoundScaled(BASE_PADDING, scale)
    IN  [h EXCEPT
          !.HUD_WIDTH = RoundScaled(BASE_HUD_WIDTH, scale),
          !.primaryFontSize = primary,
          !.calendarFontSize = primary,
          !.iconFontSize = Max(10, RoundScaled(BASE_ICON_FONT_SIZE, scale)),
          !.TIME_BAR_TEXT_TOP_PADDING = top,
          !.TIME_BAR_TEXT_BOTTOM_PADDING = bottom,
          !.TIME_BAR_HEIGHT = barHeight,
          !.MAIN_HUD_AREA_HEIGHT = mainHeight,
          !.TOTAL_HUD_HEIGHT = barHeight + mainHeight,
          !.CORNER_RADIUS = RoundScaled(BASE_CORNER_RADIUS, scale),
          !.PADDING = padding,
          !.BUTTON_PADDING = RoundScaled(BASE_BUTTON_PADDING, scale),
          !.DIAL_CENTER_X = RoundScaled(BASE_HUD_WIDTH, scale),
          !.MAIN_HUD_AREA_Y_OFFSET = barHeight,
          !.DIAL_RADIUS = (mainHeight - padding) * 8,
          !.DIAL_ARC_CENTER_Y = barHeight,
          !.MARKER_SIZE = Max(5, RoundScaled(BASE_MARKER_SIZE, scale)),
          !.weatherTextPaddingTop =
              RoundScaled(BASE_WEATHER_TEXT_PADDING_TOP, scale)])

\* _initPIXIApp
initPIXIApp(this) ==
  Call(this, LAMBDA h :
    IF h.pixiApp # Null
    THEN [h EXCEPT !.pixiApp.width = h.HUD_WIDTH,
                   !.pixiApp.height = h.TOTAL_HUD_HEIGHT]
    ELSE [h EXCEPT !.pixiApp = [width |-> h.HUD_WIDTH,
                                height |-> h.TOTAL_HUD_HEIGHT,
                                hidden |-> FALSE],
                   !.mainContainer = TRUE,
                   !.children = <<>>])

\* a variant that leaves the rendering order as it finds it
keepChildOrder(this) == this

\* _ensureWeatherTextOnTop
ensureWeatherTextOnTop(this) ==
  Call(this, LAMBDA h :
    IF h.weatherText # Null /\ h.mainContainer
    THEN [h EXCEPT
           !.children = setChildIndex(@, h.weatherText.id, Len(@) - 1),
           !.weatherText.visible = TRUE,
           !.weatherText.alpha = h.globalFontOpacity]
    ELSE h)

\* _drawTimeBar
drawTimeBar(this) ==
  Call(this, LAMBDA h :
    IF ~h.mainContainer THEN h
    ELSE LET id == IF h.timeBarGraphic # Null THEN h.timeBarGraphic.id
                   ELSE <<"timeBar", h.nextId>>
             h1 == IF h.timeBarGraphic # Null THEN h
                   ELSE [h EXCEPT !.nextId = @ + 1,
                                  !.children = addChild(@, id)]
         IN  [h1 EXCEPT !.timeBarGraphic =
                [id |-> id, fillAlpha |-> h.topBarOpacity,
                 width |-> h.HUD_WIDTH, height |-> h.TIME_BAR_HEIGHT,
                 radius |-> h.CORNER_RADIUS]])

\* _drawMainHudArea
drawMainHudArea(this) ==
  Call(this, LAMBDA h :
    IF ~h.mainContainer \/ h.mainHudAreaGraphic # Null THEN h
    ELSE LET id == <<"mainHudArea", h.nextId>>
         IN  [h EXCEPT !.nextId = @ + 1,
                       !.children = addChild(@, id),
                       !.mainHudAreaGraphic = [id |-> id]])

\* _drawRadialDialBackground
drawRadialDialBackground(this) ==
  Call(this, LAMBDA h :
    IF ~h.mainContainer THEN h
    ELSE LET fresh == h.radialDialBackground = Null
             id == IF fresh THEN <<"radialDial", h.nextId>>
                   ELSE h.radialDialBackground.id
         IN  [h EXCEPT !.nextId = IF fresh THEN @ + 1 ELSE @,
                       !.radialDialBackground =
                          [id |-> id, radius |-> h.DIAL_RADIUS],
                       !.children = addChild(@, id)])

\* _drawDialMarker
drawDialMarker(this) ==
  Call(this, LAMBDA h :
    IF ~h.mainContainer THEN h
    ELSE LET fresh == h.dialMarker = Null
             id == IF fresh THEN <<"dialMarker", h.nextId>>
                   ELSE h.dialMarker.id
         IN  [h EXCEPT !.nextId = IF fresh THEN @ + 1 ELSE @,
                       !.dialMarker =
                          [id |-> id, color |-> h.dialMarkerColor,
                           fillAlpha |-> h.dialMarkerOpacity,
                           size |-> h.MARKER_SIZE,
                           visible |-> IF fresh THEN TRUE ELSE @.visible],
                       !.children = addChild(@, id)])

HHMM == <<"H","H",":","M","M">>
SEPARATOR == " - "
CALENDAR_LOADING == "Calendar Loading..."

newText(h, kind, offset, text, size) ==
  [id |-> <<kind, h.nextId + offset>>, text |-> text, visible |-> TRUE,
   alpha |-> h.globalFontOpacity, fontFamily |-> h.globalFontFamily,
   fontSize |-> size]

\* _drawTimeAndCalendarGroup
drawTimeAndCalendarGroup(this) ==
  Call(this, LAMBDA h :
    IF ~h.mainContainer THEN h
    ELSE LET h1 == IF h.timeCalendarContainer = Null THEN h
                   ELSE [destroyNode(h, h.timeCalendarContainer) EXCEPT
                           !.destroyed = @ \cup
                              idsOf(h, {"timeText", "timeCalendarSeparator",
                                        "calendarText"}),
                           !.timeCalendarContainer = Null,
                           !.timeText = Null,
                           !.timeCalendarSeparator = Null,
                           !.calendarText = Null]
             id == <<"timeCalendar", h1.nextId>>
         IN  [h1 EXCEPT
               !.timeCalendarContainer = [id |-> id],
               !.children = addChild(@, id),
               !.timeText = newText(h1, "timeText", 1, HHMM, h1.primaryFontSize),
               !.timeCalendarSeparator =
                  newText(h1, "separator", 2, SEPARATOR, h1.primaryFontSize),
               !.calendarText =
                  newText(h1, "calendarText", 3, CALENDAR_LOADING,
                          h1.calendarFontSize),
               !.nextId = @ + 4])

REWIND_HOUR == -3600
REWIND_DAY == -86400
ADVANCE_HOUR == 3600
ADVANCE_DAY == 86400

newButton(h, kind, offset, delta) ==
  [id |-> <<kind, h.nextId + offset>>, delta |-> delta,
   alpha |-> h.globalFontOpacity, fontSize |-> h.iconFontSize,
   interactive |-> TRUE]

\* the four createButton calls (lines 350-377)
createButtons(h1) ==
  [h1 EXCEPT
     !.rewindHourButton = newButton(h1, "rewindHour", 0, REWIND_HOUR),
     !.rewindDayButton = newButton(h1, "rewindDay", 1, REWIND_DAY),
     !.advanceHourButton = newButton(h1, "advanceHour", 2, ADVANCE_HOUR),
     !.advanceDayButton = newButton(h1, "advanceDay", 3, ADVANCE_DAY),
     !.children = @ \o << <<"rewindHour", h1.nextId>>,
                          <<"rewindDay", h1.nextId + 1>>,
                          <<"advanceHour", h1.nextId + 2>>,
                          <<"advanceDay", h1.nextId + 3>> >>,
     !.nextId = @ + 4]

destroyButtons(h) ==
  destroyNode(destroyNode(destroyNode(destroyNode(h,
    h.rewindHourButton), h.rewindDayButton),
    h.advanceHourButton), h.advanceDayButton)

\* a variant that draws the buttons for every user
drawTimeAdvanceControlsForAll(this) ==
  Call(this, LAMBDA h :
    IF ~h.mainContainer THEN h
    ELSE Call(destroyButtons(h), createButtons))

\* _drawTimeAdvanceControls
drawTimeAdvanceControls(this) ==
  Call(this, LAMBDA h :
    IF ~h.mainContainer THEN h
    ELSE IF ~isGM THEN destroyButtons(h)
         ELSE Call(destroyButtons(h), createButtons))

\* _drawWeatherText
\* a variant that forgets the text it replaces
drawWeatherTextLeaking(this) ==
  Call(this, LAMBDA h :
    IF ~h.mainContainer THEN h
    ELSE LET node == newText(h, "weatherText", 0, h.currentWeather,
                             h.primaryFontSize)
         IN  ensureWeatherTextOnTop(
               [h EXCEPT !.weatherText = node,
                         !.children = addChild(@, node.id),
                         !.nextId = @ + 1]))

drawWeatherText(this) ==
  Call(this, LAMBDA h :
    IF ~h.mainContainer THEN h
    ELSE LET h1 == destroyNode(h, h.weatherText)
             node == newText(h1, "weatherText", 0, h1.currentWeather,
                             h1.primaryFontSize)
         IN  ensureWeatherTextOnTop(
               [h1 EXCEPT !.weatherText = node,
                          !.children = addChild(@, node.id),
                          !.nextId = @ + 1]))

\* _createDialInteractiveArea
\* a variant that does not clean up the area it replaces
createDialInteractiveAreaKeepingOld(this) ==
  Call(this, LAMBDA h :
    IF ~h.mainContainer \/ ~isGM THEN h
    ELSE LET id == <<"dialInteractiveArea", h.nextId>>
         IN  [h EXCEPT !.dialInteractiveArea =
                          [id |-> id, radius |-> h.DIAL_RADIUS,
                           interactive |-> TRUE, rightclick |-> TRUE],
                       !.children = addChild(@, id),
                       !.nextId = @ + 1])

createDialInteractiveArea(this) ==
  Call(this, LAMBDA h :
    IF ~h.mainContainer \/ ~isGM THEN h
    ELSE LET h1 == destroyNode(h, h.dialInteractiveArea)
             id == <<"dialInteractiveArea", h1.nextId>>
         IN  [h1 EXCEPT !.dialInteractiveArea =
                           [id |-> id, radius |-> h1.DIAL_RADIUS,
                            interactive |-> TRUE, rightclick |-> TRUE],
                        !.children = addChild(@, id),
                        !.nextId = @ + 1])

(***************************************************************************)
(* The host as the instance sees it during one handler:                    *)
(*   e.st  the settings registry (game.settings.get)                       *)
(*   e.wt  game.time.worldTime                                             *)
(*   e.cal the Simple Calendar provider                                    *)
(***************************************************************************)
\* image paths: '' selects the built-in asset
IMAGE_DEFAULT == <<>>
IMAGE_CUSTOM == <<"a">>
IMAGE_MISSING == <<"m">>
IMAGE_BROKEN == <<"x">>

\* PIXI.Texture.from(imagePath): a texture, nothing/EMPTY, or an exception
textureFrom(imagePath) ==
  CASE imagePath = IMAGE_MISSING -> "empty"
    [] imagePath = IMAGE_BROKEN -> "throws"
    [] OTHER -> "ok"

\* _createDialGradientAndMask
createDialGradientAndMask(this, e) ==
  Call(this, LAMBDA h :
    IF ~h.mainContainer \/ h.DIAL_RADIUS <= 0 THEN h
    ELSE LET h1 == IF h.dialGradientContainer = Null THEN h
                   ELSE [destroyNode(h, h.dialGradientContainer) EXCEPT
                           !.destroyed = @ \cup
                              idsOf(h, {"dialGradientSprite", "dialMask"}),
                           !.dialGradientContainer = Null,
                           !.dialGradientSprite = Null,
                           !.dialMask = Null]
             customImage == e.st.customDialImage
             imagePath == IF Truthy(customImage) THEN customImage.v
                          ELSE IMAGE_DEFAULT
             customScale == IF Truthy(e.st.customDialImageScale)
                            THEN e.st.customDialImageScale.v ELSE 100
         IN  IF textureFrom(imagePath) # "ok"
             THEN createDialInteractiveArea(h1)
             ELSE [h1 EXCEPT
                    !.dialGradientSprite =
                       [id |-> <<"dialSprite", h1.nextId>>,
                        size |-> h1.DIAL_RADIUS * 2 * customScale,
                        alpha |-> h1.dialImageOpacity, rotation |-> 0],
                    !.dialMask = [id |-> <<"dialMask", h1.nextId + 1>>,
                                  radius |-> h1.DIAL_RADIUS],
                    !.dialGradientContainer =
                       [id |-> <<"dialContainer", h1.nextId + 2>>,
                        interactive |-> isGM, rightclick |-> isGM],
                    !.children =
                       addChild(@, <<"dialContainer", h1.nextId + 2>>),
                    !.nextId = @ + 3])

\* _redrawAllElements
redrawAllElements(this, e) ==
  Call(this, LAMBDA h :
    LET h0 == IF h.dialInteractiveArea # Null
              THEN [destroyNode(h, h.dialInteractiveArea) EXCEPT
                      !.dialInteractiveArea = Null]
              ELSE h
        h1 == drawDialMarker(drawRadialDialBackground(
                drawMainHudArea(drawTimeBar(h0))))
        h2 == createDialGradientAndMask(
                drawTimeAdvanceControls(drawTimeAndCalendarGroup(h1)), e)
        h3 == ensureWeatherTextOnTop(
                createDialInteractiveArea(drawWeatherText(h2)))
    IN  [h3 EXCEPT !.pendingEnsureTop = @ + 1])

\* _updateDialRotation
updateDialRotation(this, e) ==
  Call(this, LAMBDA h :
    IF h.dialGradientSprite = Null THEN h
    ELSE LET baseRotation == JsRem(e.wt, 86400)
             stored == e.st.customDialImageAngleOffset
             angleOffsetDegrees == IF Truthy(stored) THEN stored.v ELSE 90
         IN  [h EXCEPT !.dialGradientSprite.rotation =
                          baseRotation + angleOffsetDegrees * 240])

DigitChars == <<"0","1","2","3","4","5","6","7","8","9">>

RECURSIVE NatToString(_)
NatToString(n) ==
  IF n < 10 THEN <<DigitChars[n + 1]>>
  ELSE NatToString(n \div 10) \o <<DigitChars[(n % 10) + 1]>>

\* String(n)
NumberToString(n) ==
  IF n < 0 THEN <<"-">> \o NatToString(-n) ELSE NatToString(n)

\* a variant that leaves the digits as they are
unpadded(s) == s

\* String.prototype.padStart(2, '0')
padStart2(s) == IF Len(s) < 2 THEN <<"0">> \o s ELSE s

\* updateTimeDisplay
updateTimeDisplay(this, e) ==
  Call(this, LAMBDA h :
    IF h.timeText = Null THEN h
    ELSE LET hours == JsRem(FloorDiv(e.wt, 3600), 24)
             minutes == FloorDiv(JsRem(e.wt, 3600), 60)
             seconds == JsRem(e.wt, 60)
             hhmm == padStart2(NumberToString(hours)) \o <<":">>
                     \o padStart2(NumberToString(minutes))
         IN  [h EXCEPT !.timeText.text =
                IF h.displaySeconds
                THEN hhmm \o <<":">> \o padStart2(NumberToString(seconds))
                ELSE hhmm])

\* the calendar provider: the module is not active; active without its
\* global; active with the global but no api; or active, and what
\* api.currentDateTimeDisplay() then does
Calendars == {"inactive", "noglobal", "noapi",
              "null", "nodate", "dateonly", "full", "throws"}
FORMATTED_DATE == "1 January, 2024"
PROVIDER_DATE == "January 1"

\* updateCalendarDisplay
updateCalendarDisplay(this, e) ==
  Call(this, LAMBDA h :
    IF h.calendarText = Null THEN h
    ELSE CASE e.cal = "inactive" ->
                [h EXCEPT !.calendarText.text = "SC not active"]
           [] e.cal = "noglobal" -> [h EXCEPT !.exc = TRUE]
           [] e.cal = "noapi" ->
                [h EXCEPT !.calendarText.text = "SC not active"]
           [] e.cal = "null" ->
                [h EXCEPT !.calendarText.text = "SC: No object"]
           [] e.cal = "nodate" ->
                [h EXCEPT !.calendarText.text = "SC: No date"]
           [] e.cal = "dateonly" ->
                [h EXCEPT !.calendarText.text = PROVIDER_DATE]
           [] e.cal = "full" ->
                [h EXCEPT !.calendarText.text = FORMATTED_DATE]
           [] e.cal = "throws" ->
                [h EXCEPT !.calendarText.text = "SC: API Err"])

\* updateWeatherDisplay
\* a variant that shows the label as it is stored
updateWeatherDisplayAsStored(this, newStatus) ==
  Call(this, LAMBDA h :
    IF h.weatherText = Null THEN h
    ELSE LET h1 == IF TypeOf(newStatus) = "string"
                   THEN [h EXCEPT !.currentWeather = newStatus.v]
                   ELSE h
         IN  ensureWeatherTextOnTop(
               [h1 EXCEPT !.weatherText.text = h1.currentWeather]))

updateWeatherDisplay(this, newStatus) ==
  Call(this, LAMBDA h :
    IF h.weatherText = Null THEN h
    ELSE LET h1 == IF TypeOf(newStatus) = "string"
                   THEN [h EXCEPT !.currentWeather = newStatus.v]
                   ELSE h
         IN  ensureWeatherTextOnTop(
               [h1 EXCEPT !.weatherText.text = toUpperCase(h1.currentWeather)]))

\* _loadWeatherFromFlag
loadWeatherFromFlag(this, e) ==
  Call(this, LAMBDA h :
    LET savedWeather == e.st.currentWeather
        h1 == IF Truthy(savedWeather)
              THEN [h EXCEPT !.currentWeather = savedWeather.v]
              ELSE h
    IN  ensureWeatherTextOnTop(updateWeatherDisplay(h1, Str(h1.currentWeather))))

(***************************************************************************)
(* The setters.  A value is a JavaScript value (Num, Str, Bool, NaN).      *)
(***************************************************************************)
\* typeof alpha === 'number' && alpha >= 0 && alpha <= 1
validOpacity(alpha) == alpha.t = "number" /\ alpha.v >= 0 /\ alpha.v <= 100

\* setMasterHudToggle
setMasterHudToggle(this, visible) ==
  Call(this, LAMBDA h :
    IF h.pixiApp # Null
    THEN [h EXCEPT !.pixiApp.hidden = ~Truthy(visible)]
    ELSE h)

\* setGlobalUiSize
\* a variant that stores the scale and computes nothing
setGlobalUiSizeStoredOnly(this, scale, e) ==
  Call(this, LAMBDA h :
    IF scale.t = "number" /\ scale.v > 0
    THEN [h EXCEPT !.globalUiScale = scale.v]
    ELSE [h EXCEPT !.warned = TRUE])

setGlobalUiSize(this, scale, e) ==
  Call(this, LAMBDA h :
    IF scale.t = "number" /\ scale.v > 0
    THEN LET h1 == calculateScaledDimensions(
                     [h EXCEPT !.globalUiScale = scale.v])
             h2 == IF h1.pixiApp # Null
                   THEN [h1 EXCEPT !.pixiApp.width = h1.HUD_WIDTH,
                                   !.pixiApp.height = h1.TOTAL_HUD_HEIGHT]
                   ELSE initPIXIApp([h1 EXCEPT !.warned = TRUE])
             h3 == updateCalendarDisplay(
                     updateTimeDisplay(redrawAllElements(h2, e), e), e)
             UpdateRest(x) ==
               updateDialRotation(updateWeatherDisplay(x, Undefined), e)
         IN  Then(h3, UpdateRest)
    ELSE [h EXCEPT !.warned = TRUE])

\* setGlobalFontFamily
setGlobalFontFamily(this, fontFamily, e) ==
  Call(this, LAMBDA h :
    IF fontFamily.t = "string" /\ trim(fontFamily.v) # <<>>
    THEN LET h1 == [h EXCEPT !.globalFontFamily = fontFamily.v]
             h3 == updateCalendarDisplay(
                     updateTimeDisplay(redrawAllElements(h1, e), e), e)
             UpdateRest(x) ==
               updateDialRotation(updateWeatherDisplay(x, Undefined), e)
         IN  Then(h3, UpdateRest)
    ELSE IF fontFamily.t = "string" /\ fontFamily.v = <<>>
         THEN [h EXCEPT !.globalFontFamily = DEFAULT_FONT_FAMILY]
         ELSE [h EXCEPT !.warned = TRUE])

\* setHudTopPadding
setHudTopPadding(this, paddingString) ==
  Call(this, LAMBDA h :
    [h EXCEPT !.cssTopPadding = paddingString.v])

\* setTopBarOpacity
setTopBarOpacity(this, alpha) ==
  Call(this, LAMBDA h :
    IF validOpacity(alpha)
    THEN drawTimeBar([h EXCEPT !.topBarOpacity = alpha.v])
    ELSE h)

\* setToggleCalendarDisplay
setToggleCalendarDisplay(this, visible) ==
  Call(this, LAMBDA h :
    LET h1 == IF h.calendarText # Null
              THEN [h EXCEPT !.calendarText.visible = Truthy(visible)]
              ELSE h
    IN  IF h1.timeCalendarSeparator # Null
        THEN [h1 EXCEPT !.timeCalendarSeparator.visible = Truthy(visible)]
        ELSE h1)

\* setToggleWeatherDisplay
\* a variant that rebuilds the weather text before showing or hiding it
setToggleWeatherDisplayByRedraw(this, visible) ==
  Call(drawWeatherText(this), LAMBDA h :
    IF h.weatherText # Null
    THEN [h EXCEPT !.weatherText.visible = Truthy(visible)]
    ELSE h)

setToggleWeatherDisplay(this, visible) ==
  Call(this, LAMBDA h :
    IF h.weatherText # Null
    THEN [h EXCEPT !.weatherText.visible = Truthy(visible)]
    ELSE h)

\* setToggleDialMarker
setToggleDialMarker(this, visible) ==
  Call(this, LAMBDA h :
    IF h.dialMarker # Null
    THEN [h EXCEPT !.dialMarker.visible = Truthy(visible)]
    ELSE h)

\* setDialImageOpacity
setDialImageOpacity(this, alpha) ==
  Call(this, LAMBDA h :
    IF validOpacity(alpha)
    THEN LET h1 == [h EXCEPT !.dialImageOpacity = alpha.v]
         IN  IF h1.dialGradientSprite # Null
             THEN [h1 EXCEPT !.dialGradientSprite.alpha = alpha.v]
             ELSE h1
    ELSE [h EXCEPT !.warned = TRUE])

HexDigits == <<"0","1","2","3","4","5","6","7","8","9",
               "A","B","C","D","E","F">>

\* parseInt(s, 16): the value of the longest prefix of hex digits, as a
\* pair <<digits read, value>>
RECURSIVE parseHex(_, _, _)
parseHex(s, n, acc) ==
  IF s = <<>> \/ IndexIn(toUpperCase(<<Head(s)>>)[1], HexDigits) = 0
  THEN <<n, acc>>
  ELSE parseHex(Tail(s), n + 1,
                16 * acc + IndexIn(toUpperCase(<<Head(s)>>)[1], HexDigits) - 1)

\* Number(PIXI.utils.string2hex(colorValue)) for a string without a CSS
\* colour name: a leading '#' is dropped and the rest read by parseInt
string2hex(colorValue) ==
  LET digits == IF colorValue # <<>> /\ Head(colorValue) = "#"
                THEN Tail(colorValue) ELSE colorValue
      parsed == parseHex(digits, 0, 0)
  IN  IF parsed[1] = 0 THEN NaN ELSE Num(parsed[2])

\* setDialMarkerColor
setDialMarkerColor(this, colorValue) ==
  Call(this, LAMBDA h :
    IF colorValue.t \notin {"string", "number", "NaN"}
    THEN [h EXCEPT !.warned = TRUE]
    ELSE LET newColor == IF colorValue.t = "string"
                         THEN string2hex(colorValue.v) ELSE colorValue
             h1 == [h EXCEPT !.dialMarkerColor = newColor]
         IN  IF h1.dialMarker # Null THEN drawDialMarker(h1) ELSE h1)

\* setDialMarkerOpacity
setDialMarkerOpacity(this, alpha) ==
  Call(this, LAMBDA h :
    IF validOpacity(alpha)
    THEN LET h1 == [h EXCEPT !.dialMarkerOpacity = alpha.v]
         IN  IF h1.dialMarker # Null THEN drawDialMarker(h1) ELSE h1
    ELSE [h EXCEPT !.warned = TRUE])

setAlpha(node, alpha) ==
  IF node = Null THEN Null ELSE [node EXCEPT !.alpha = alpha]

\* setGlobalFontOpacity
setGlobalFontOpacity(this, alpha) ==
  Call(this, LAMBDA h :
    IF validOpacity(alpha)
    THEN [h EXCEPT !.globalFontOpacity = alpha.v,
                   !.timeText = setAlpha(@, alpha.v),
                   !.calendarText = setAlpha(@, alpha.v),
                   !.timeCalendarSeparator = setAlpha(@, alpha.v),
                   !.weatherText = setAlpha(@, alpha.v),
                   !.rewindHourButton = setAlpha(@, alpha.v),
                   !.rewindDayButton = setAlpha(@, alpha.v),
                   !.advanceHourButton = setAlpha(@, alpha.v),
                   !.advanceDayButton = setAlpha(@, alpha.v)]
    ELSE [h EXCEPT !.warned = TRUE])

\* setToggleSecondsDisplay
setToggleSecondsDisplay(this, display, e) ==
  Call(this, LAMBDA h :
    updateTimeDisplay([h EXCEPT !.displaySeconds = Truthy(display)], e))

\* setCustomDialImage
setCustomDialImage(this, imagePath, e) ==
  Call(this, LAMBDA h :
    createDialGradientAndMask(h, e))

\* setCustomDialImageScale
setCustomDialImageScale(this, scale, e) ==
  Call(this, LAMBDA h :
    IF scale.t = "number" /\ scale.v > 0
    THEN createDialGradientAndMask(h, e)
    ELSE [h EXCEPT !.warned = TRUE])

\* setCustomDialImageAngleOffset
setCustomDialImageAngleOffset(this, angle, e) ==
  Call(this, LAMBDA h :
    IF angle.t = "number" /\ angle.v >= 0 /\ angle.v <= 360
    THEN updateDialRotation(h, e)
    ELSE [h EXCEPT !.warned = TRUE])

\* the setter of a settings key: `set` + the key with its first letter
\* upper-cased; every key of the registry but currentWeather has one
SetterKeys == {"globalUiSize", "masterHudToggle", "hudTopPadding",
               "globalFontFamily", "globalFontOpacity", "topBarOpacity",
               "toggleCalendarDisplay", "toggleSecondsDisplay",
               "dialImageOpacity", "toggleDialMarker", "dialMarkerColor",
               "dialMarkerOpacity", "toggleWeatherDisplay",
               "customDialImage", "customDialImageScale",
               "customDialImageAngleOffset"}

callSetter(this, key, value, e) ==
  Call(this, LAMBDA h :
    CASE key = "globalUiSize" -> setGlobalUiSize(h, value, e)
      [] key = "masterHudToggle" -> setMasterHudToggle(h, value)
      [] key = "hudTopPadding" -> setHudTopPadding(h, value)
      [] key = "globalFontFamily" -> setGlobalFontFamily(h, value, e)
      [] key = "globalFontOpacity" -> setGlobalFontOpacity(h, value)
      [] key = "topBarOpacity" -> setTopBarOpacity(h, value)
      [] key = "toggleCalendarDisplay" -> setToggleCalendarDisplay(h, value)
      [] key = "toggleSecondsDisplay" -> setToggleSecondsDisplay(h, value, e)
      [] key = "dialImageOpacity" -> setDialImageOpacity(h, value)
      [] key = "toggleDialMarker" -> setToggleDialMarker(h, value)
      [] key = "dialMarkerColor" -> setDialMarkerColor(h, value)
      [] key = "dialMarkerOpacity" -> setDialMarkerOpacity(h, value)
      [] key = "toggleWeatherDisplay" -> setToggleWeatherDisplay(h, value)
      [] key = "customDialImage" -> setCustomDialImage(h, value, e)
      [] key = "customDialImageScale" -> setCustomDialImageScale(h, value, e)
      [] key = "customDialImageAngleOffset" ->
           setCustomDialImageAngleOffset(h, value, e))

(***************************************************************************)
(* Construction and the ready handler                                      *)
(***************************************************************************)
\* constructor (lines 102-154); ready is game.ready
constructor(e, ready) ==
  LET h1 == redrawAllElements(
              initPIXIApp(calculateScaledDimensions(BlankHud)), e)
      h2 == updateCalendarDisplay(updateTimeDisplay(h1, e), e)
      Rest(x) ==
        LET x1 == updateDialRotation(x, e)
            x2 == IF ready THEN loadWeatherFromFlag(x1, e)
                  ELSE [x1 EXCEPT !.pendingLoadWeather = @ + 1]
        IN  [x2 EXCEPT !.pendingEnsureTop = @ + 1]
  IN  Then(h2, Rest)

\* the 'SimpleCalendar.DateTimeChange' hook is registered (line 137)
calendarHooked(cal) == cal \notin {"inactive", "noglobal", "noapi"}

\* settingsToApply (lines 733-738)
settingsToApply ==
  <<"globalUiSize", "masterHudToggle", "hudTopPadding", "globalFontFamily",
    "globalFontOpacity", "topBarOpacity", "toggleCalendarDisplay",
    "toggleSecondsDisplay", "dialImageOpacity", "toggleDialMarker",
    "dialMarkerColor", "dialMarkerOpacity", "toggleWeatherDisplay",
    "customDialImage", "customDialImageScale", "customDialImageAngleOffset">>

\* a variant of the turn without try/catch: after a setter has thrown,
\* forEach is over and no further setter is called
applySettingUncaught(r, key, e, faults) ==
  LET value == e.st[key]
  IN  IF \E i \in DOMAIN r[2] : r[2][i] \in faults THEN r
      ELSE IF value.t # "undefined" /\ key \in SetterKeys
           THEN << IF key \in faults THEN r[1]
                   ELSE [callSetter(r[1], key, value, e) EXCEPT !.exc = FALSE],
                   Append(r[2], key) >>
           ELSE r

\* one turn of settingsToApply.forEach (lines 739-759): the setter is
\* called inside try/catch; `faults` are the keys whose setter throws
\* on entry; r is <<instance, keys whose setter was called>>
applySetting(r, key, e, faults) ==
  LET value == e.st[key]
  IN  IF value.t # "undefined" /\ key \in SetterKeys
      THEN << IF key \in faults THEN r[1]
              ELSE [callSetter(r[1], key, value, e) EXCEPT !.exc = FALSE],
              Append(r[2], key) >>
      ELSE r

RECURSIVE applySettings(_, _, _, _)
applySettings(acc, keys, e, faults) ==
  Call(acc, LAMBDA r :
    IF keys = <<>> THEN r
    ELSE applySettings(applySetting(r, Head(keys), e, faults),
                       Tail(keys), e, faults))

\* onReady (lines 725-766) when no instance is registered: <<instance,
\* setter calls>>; the instance carries exc when the constructor threw
onReady(e, faults) ==
  LET hudAPI == constructor(e, TRUE)
      r == applySettings(<<hudAPI, <<>> >>, settingsToApply, e, faults)
  IN  IF hudAPI.exc THEN <<hudAPI, <<>> >>
      ELSE << [r[1] EXCEPT !.pendingLoadWeather = @ + 1], r[2] >>

\* a variant of the socket handler that does not look at the sender
onSocketMessageFromAnyone(this, data) ==
  Call(this, LAMBDA h :
    IF data.type = "weather-update"
    THEN ensureWeatherTextOnTop(
           updateWeatherDisplay([h EXCEPT !.currentWeather = data.weather],
                                Str(data.weather)))
    ELSE h)

\* the 'weather-update' socket handler (lines 146-154)
onSocketMessage(this, data) ==
  Call(this, LAMBDA h :
    IF data.type = "weather-update" /\ data.userId # LocalUser
    THEN ensureWeatherTextOnTop(
           updateWeatherDisplay([h EXCEPT !.currentWeather = data.weather],
                                Str(data.weather)))
    ELSE h)

\* the 'updateWorldTime' hook (lines 131-135)
onUpdateWorldTime(this, e) ==
  Call(this, LAMBDA h :
    Then(updateCalendarDisplay(updateTimeDisplay(h, e), e),
         LAMBDA x : updateDialRotation(x, e)))

\* the 'SimpleCalendar.DateTimeChange' hook (lines 138-142)
onCalendarDateTimeChange(this, e) ==
  Call(this, LAMBDA h :
    Then(updateCalendarDisplay(h, e), LAMBDA x : updateDialRotation(x, e)))

\* a variant of onChange that leaves the instance alone
onCurrentWeatherChangeIgnored(this, weather) == this

\* onChange of the world setting currentWeather (solunaDialSettings.js lines 89-97)
onCurrentWeatherChange(this, weather) ==
  Call(this, LAMBDA h :
    ensureWeatherTextOnTop(
      updateWeatherDisplay([h EXCEPT !.currentWeather = weather],
                           Str(weather))))

\* weatherOptions (lines 605-608)
weatherOptions ==
  << <<"C","l","e","a","r">>, <<"C","l","o","u","d","y">>,
     <<"O","v","e","r","c","a","s","t">>, <<"R","a","i","n","y">>,
     <<"S","t","o","r","m","y">>, <<"F","o","g","g","y">>,
     <<"S","n","o","w","y">>, <<"W","i","n","d","y">>, <<"H","o","t">>,
     <<"C","o","l","d">>, <<"H","u","m","i","d">>, <<"D","r","y">> >>

\* the dialog's update callback (lines 636-659): the label it applies,
\* or Null when it applies none; currentWeather is the label captured
\* when the dialog was opened
dialogNewWeather(currentWeather, customValue, selectValue) ==
  LET customInput == trim(customValue)
      newWeather == IF customInput # <<>> THEN customInput ELSE selectValue
  IN  IF newWeather # <<>> /\ newWeather # currentWeather
      THEN [weather |-> newWeather]
      ELSE Null

(***************************************************************************)
(* Bounds and inputs                                                       *)
(***************************************************************************)
\* operations in one behaviour
MaxOps == 2
\* handlers per behaviour when only the weather label's handlers run
MaxWeatherOps == 3
\* |game.time.worldTime| stays within this many days
MaxDays == 2
MaxScale == 60

ARIAL == <<"A","r","i","a","l">>
RAINY == <<"R","a","i","n","y">>
LOWER_CLEAR == <<"c","l","e","a","r">>

\* settings registered by registerSettings, with their defaults
DefaultSettings ==
  [ masterHudToggle |-> Bool(TRUE), toggleCalendarDisplay |-> Bool(TRUE),
    toggleSecondsDisplay |-> Bool(FALSE), toggleDialMarker |-> Bool(TRUE),
    toggleWeatherDisplay |-> Bool(TRUE),
    currentWeather |-> Str(DEFAULT_WEATHER),
    globalUiSize |-> Num(100), hudTopPadding |-> Str(<<"0","p","x">>),
    globalFontFamily |-> Str(DEFAULT_FONT_FAMILY),
    globalFontOpacity |-> Num(100), topBarOpacity |-> Num(70),
    dialImageOpacity |-> Num(100),
    dialMarkerColor |-> Str(<<"#","F","F","F","F","F","F">>),
    dialMarkerOpacity |-> Num(100), customDialImage |-> Str(IMAGE_DEFAULT),
    customDialImageScale |-> Num(100),
    customDialImageAngleOffset |-> Num(90) ]

\* a world whose settings were changed in an earlier session
CustomSettings ==
  [ DefaultSettings EXCEPT
      !.toggleCalendarDisplay = Bool(FALSE),
      !.toggleSecondsDisplay = Bool(TRUE),
      !.toggleWeatherDisplay = Bool(FALSE),
      !.currentWeather = Str(RAINY),
      !.globalUiSize = Num(150),
      !.globalFontFamily = Str(ARIAL),
      !.globalFontOpacity = Num(50),
      !.customDialImage = Str(IMAGE_MISSING),
      !.customDialImageAngleOffset = Num(0) ]

StoredSettings == {DefaultSettings, CustomSettings}

\* values a setting of the key's registered type can take
SettingInputs(key) ==
  CASE key = "globalUiSize" -> {Num(20), Num(150)}
    [] key = "masterHudToggle" -> {Bool(FALSE), Bool(TRUE)}
    [] key = "hudTopPadding" -> {Str(<<"1","0","p","x">>)}
    [] key = "globalFontFamily" -> {Str(ARIAL), Str(<<>>)}
    [] key = "globalFontOpacity" -> {Num(50)}
    [] key = "topBarOpacity" -> {Num(50)}
    [] key = "toggleCalendarDisplay" -> {Bool(FALSE), Bool(TRUE)}
    [] key = "toggleSecondsDisplay" -> {Bool(FALSE), Bool(TRUE)}
    [] key = "dialImageOpacity" -> {Num(50)}
    [] key = "toggleDialMarker" -> {Bool(FALSE), Bool(TRUE)}
    [] key = "dialMarkerColor" -> {Str(<<"#","F","0","0">>)}
    [] key = "dialMarkerOpacity" -> {Num(50)}
    [] key = "toggleWeatherDisplay" -> {Bool(FALSE), Bool(TRUE)}
    [] key = "customDialImage" ->
         {Str(IMAGE_CUSTOM), Str(IMAGE_MISSING), Str(IMAGE_BROKEN)}
    [] key = "customDialImageScale" -> {Num(200)}
    [] key = "customDialImageAngleOffset" -> {Num(0), Num(45)}

\* values only a direct call of the setter can pass
ApiKeys == {"globalUiSize", "globalFontFamily", "globalFontOpacity",
            "topBarOpacity", "dialImageOpacity", "dialMarkerColor",
            "dialMarkerOpacity", "customDialImageScale",
            "customDialImageAngleOffset"}

ApiInputs(key) ==
  CASE key = "globalUiSize" -> {Num(1), Num(500), Num(0), Str(<<"1">>)}
    [] key = "globalFontFamily" -> {Num(7), Str(<<" ">>)}
    [] key = "globalFontOpacity" -> {Num(5), Num(150), NaN}
    [] key = "topBarOpacity" -> {Num(150), Num(-10), Str(<<"1">>)}
    [] key = "dialImageOpacity" -> {Num(150), Str(<<"1">>)}
    [] key = "dialMarkerColor" -> {Num(255), Str(<<"z">>)}
    [] key = "dialMarkerOpacity" -> {Num(150), NaN}
    [] key = "customDialImageScale" -> {Num(1000), Num(0)}
    [] key = "customDialImageAngleOffset" -> {Num(361), Num(-1)}

WeatherInputs == {RAINY, LOWER_CLEAR}

SocketInputs ==
  { [type |-> "weather-update", weather |-> RAINY, userId |-> LocalUser],
    [type |-> "weather-update", weather |-> RAINY, userId |-> PeerUser],
    [type |-> "weather-update", weather |-> LOWER_CLEAR, userId |-> PeerUser],
    [type |-> "other", weather |-> RAINY, userId |-> PeerUser] }

TimeDeltas == {REWIND_DAY, 61, 43200}

\* what the user leaves in the dialog's text field and in its select
CustomInputs == {<<>>, <<" ">>, RAINY, LOWER_CLEAR}
SelectInputs == {weatherOptions[1], weatherOptions[4]}

\* keys whose setter throws on entry during the replay of onReady
FaultSets == {{}, {"globalFontFamily"}, {"globalUiSize"}}
NoFaults == {{}}

InitCalendars == {"inactive", "full", "noglobal"}
ApiResults == {"null", "nodate", "dateonly", "full", "throws"}

(***************************************************************************)
(* State                                                                   *)
(***************************************************************************)
NoOp == [name |-> "init", key |-> "", arg |-> Undefined,
         warned |-> FALSE, threw |-> FALSE, calls |-> <<>>]

Op(name, key, arg, h, calls) ==
  [name |-> name, key |-> key, arg |-> arg, warned |-> h.warned,
   threw |-> h.exc, calls |-> calls]

\* the instance as the handler leaves it
Finish(h) == [h EXCEPT !.warned = FALSE, !.exc = FALSE]

Env == [st |-> settings, wt |-> worldTime, cal |-> calendar]

Init ==
  /\ isGM \in BOOLEAN
  /\ gameReady = FALSE
  /\ api = FALSE
  /\ hud = BlankHud
  /\ settings \in StoredSettings
  /\ worldTime = 3661
  /\ calendar \in InitCalendars
  /\ scHook = FALSE
  /\ dialog = [open |-> {}, pc |-> "idle", newWeather |-> <<>>]
  /\ net = [pendingWrites |-> <<>>, emitted |-> <<>>]
  /\ lastOp = NoOp
  /\ ops = 0

\* a handler runs to its end before the next one starts; `max` bounds how
\* many handlers a behaviour runs
Tick(max) == dialog.pc = "idle" /\ ops < max /\ ops' = ops + 1

\* steps that `max` does not count: what the host does on its own after a
\* handler asked for it, and opening or dismissing a dialog
Free == dialog.pc = "idle" /\ UNCHANGED ops

(***************************************************************************)
(* Actions                                                                 *)
(***************************************************************************)
\* Hooks.once('ready', SolunaDial.onReady) (lines 991-999)
OnReadyWith(faultSets) ==
  /\ ~gameReady
  /\ gameReady' = TRUE
  /\ \E faults \in faultSets :
       IF api
       THEN /\ lastOp' = Op("onReady", "", Undefined, hud, <<>>)
            /\ UNCHANGED <<api, hud, scHook>>
       ELSE \E r \in {onReady(Env, faults)} :
              /\ api' = ~r[1].exc
              /\ hud' = IF r[1].exc THEN hud ELSE Finish(r[1])
              /\ scHook' = (~r[1].exc /\ calendarHooked(calendar))
              /\ lastOp' = Op("construct", "", Undefined, r[1], r[2])
  /\ UNCHANGED <<isGM, settings, worldTime, calendar, dialog, net>>

OnReady == OnReadyWith(NoFaults)

\* SolunaDial.onReady (lines 725-766) run once more after the ready hook
\* has fired: the static method is public and tests only the registered api
OnReadyAgain ==
  /\ gameReady
  /\ IF api
     THEN /\ lastOp' = Op("onReady", "", Undefined, hud, <<>>)
          /\ UNCHANGED <<api, hud, scHook>>
     ELSE \E r \in {onReady(Env, {})} :
            /\ api' = ~r[1].exc
            /\ hud' = IF r[1].exc THEN hud ELSE Finish(r[1])
            /\ scHook' = (~r[1].exc /\ calendarHooked(calendar))
            /\ lastOp' = Op("construct", "", Undefined, r[1], r[2])
  /\ UNCHANGED <<isGM, gameReady, settings, worldTime, calendar, dialog, net>>

\* the ready hook when a setter may throw
OnReadyFaulty == OnReadyWith(FaultSets)

SettingChangeOf(keys) ==
  /\ gameReady
  /\ \E key \in keys : \E value \in SettingInputs(key) :
       /\ settings' = [settings EXCEPT ![key] = value]
       /\ \E h \in {IF api
                   THEN callSetter(hud, key, value,
                                   [Env EXCEPT !.st = settings'])
                   ELSE hud} :
            /\ hud' = Finish(h)
            /\ lastOp' = Op("set", key, value, h, <<>>)
  /\ UNCHANGED <<isGM, gameReady, api, worldTime, calendar, scHook, dialog, net>>

\* a direct call of a setter of the registered instance
ApiCall ==
  /\ api
  /\ \E key \in ApiKeys : \E value \in ApiInputs(key) :
       \E h \in {callSetter(hud, key, value, Env)} :
           /\ hud' = Finish(h)
           /\ lastOp' = Op("call", key, value, h, <<>>)
  /\ UNCHANGED <<isGM, gameReady, api, settings, worldTime, calendar, scHook, dialog,
                 net>>

SettingChange == SettingChangeOf(SetterKeys)

\* the world setting currentWeather is changed by another client, or a
\* write this client requested completes: the value is stored, then
\* onChange runs
ApplyWeatherSetting(name, weather) ==
  /\ settings' = [settings EXCEPT !.currentWeather = Str(weather)]
  /\ \E h \in {IF api THEN onCurrentWeatherChange(hud, weather) ELSE hud} :
         /\ hud' = Finish(h)
         /\ lastOp' = Op(name, "currentWeather", Str(weather), h, <<>>)

PeerWeatherChange ==
  /\ gameReady
  /\ \E weather \in WeatherInputs : ApplyWeatherSetting("peerWrite", weather)
  /\ UNCHANGED <<isGM, gameReady, api, worldTime, calendar, scHook, dialog, net>>

\* await game.settings.set(... 'currentWeather' ...) resolves (line 696)
WriteComplete ==
  /\ net.pendingWrites # <<>>
  /\ ApplyWeatherSetting("writeComplete", Head(net.pendingWrites))
  /\ net' = [net EXCEPT !.pendingWrites = Tail(@)]
  /\ UNCHANGED <<isGM, gameReady, api, worldTime, calendar, scHook, dialog>>

\* a message arrives on the module's socket channel
ReceiveSocket ==
  /\ api
  /\ \E data \in SocketInputs :
       \E h \in {onSocketMessage(hud, data)} :
           /\ hud' = Finish(h)
           /\ lastOp' = Op("socket", data.userId, Str(data.weather), h,
                           <<data.type>>)
  /\ UNCHANGED <<isGM, gameReady, api, settings, worldTime, calendar, scHook, dialog,
                 net>>

AdvanceWorldTime(name, delta) ==
  /\ worldTime + delta <= MaxDays * 86400
  /\ worldTime + delta >= -(MaxDays * 86400)
  /\ worldTime' = worldTime + delta
  /\ \E h \in {IF api
               THEN onUpdateWorldTime(hud, [Env EXCEPT !.wt = worldTime'])
               ELSE hud} :
         /\ hud' = Finish(h)
         /\ lastOp' = Op(name, "", Num(delta), h, <<>>)

\* the world time changes and the 'updateWorldTime' hook runs
UpdateWorldTime ==
  /\ gameReady
  /\ \E delta \in TimeDeltas : AdvanceWorldTime("updateWorldTime", delta)
  /\ UNCHANGED <<isGM, gameReady, api, settings, calendar, scHook, dialog, net>>

Buttons(h) == {h.rewindHourButton, h.rewindDayButton, h.advanceHourButton,
               h.advanceDayButton} \ {Null}

\* 'pointertap' on a time button of the scene: game.time.advance(delta)
ClickTimeButton ==
  /\ gameReady
  /\ \E button \in Buttons(hud) :
       /\ button.id \in {hud.children[i] : i \in 1..Len(hud.children)}
       /\ button.interactive
       /\ AdvanceWorldTime("click", button.delta)
  /\ UNCHANGED <<isGM, gameReady, api, settings, calendar, scHook, dialog, net>>

\* the calendar's date changes; the hook runs where it was registered
CalendarDateTimeChange ==
  /\ gameReady
  /\ calendarHooked(calendar)
  /\ \E result \in ApiResults :
       /\ calendar' = result
       /\ \E h \in {IF scHook
                   THEN onCalendarDateTimeChange(
                          hud, [Env EXCEPT !.cal = result])
                   ELSE hud} :
              /\ hud' = Finish(h)
              /\ lastOp' = Op("calendar", result, Undefined, h, <<>>)
  /\ UNCHANGED <<isGM, gameReady, api, settings, worldTime, scHook, dialog, net>>

\* the places _showWeatherChangeDialog is called from: a right click on
\* the dial container or on the hit-test region, or a direct call
DialogSources(h) ==
  {"call"}
  \cup (IF h.dialGradientContainer # Null /\ h.dialGradientContainer.rightclick
        THEN {"dialContainer"} ELSE {})
  \cup (IF h.dialInteractiveArea # Null /\ h.dialInteractiveArea.rightclick
        THEN {"dialInteractiveArea"} ELSE {})

\* _showWeatherChangeDialog (lines 599-673) up to render(true)
ShowWeatherChangeDialog ==
  /\ api
  /\ dialog.open = {}
  /\ \E source \in DialogSources(hud) :
       /\ dialog' = IF isGM
                    THEN [dialog EXCEPT !.open = @ \cup {hud.currentWeather}]
                    ELSE dialog
       /\ lastOp' = Op("showDialog", source, Undefined, hud, <<>>)
  /\ UNCHANGED <<isGM, gameReady, api, hud, settings, worldTime, calendar, scHook, net>>

\* the dialog's update callback, first part (lines 637-647): the label
\* is decided and applied locally
DialogUpdate ==
  /\ \E currentWeather \in dialog.open :
     \E customValue \in CustomInputs : \E selectValue \in SelectInputs :
       LET new == dialogNewWeather(currentWeather, customValue, selectValue)
       IN  \E h \in {IF new = Null THEN hud
                     ELSE updateWeatherDisplay(
                            [hud EXCEPT !.currentWeather = new.weather],
                            Str(new.weather))} :
           /\ hud' = Finish(h)
           /\ dialog' = IF new = Null
                        THEN [dialog EXCEPT !.open = @ \ {currentWeather}]
                        ELSE [open |-> dialog.open \ {currentWeather},
                              pc |-> "save", newWeather |-> new.weather]
           /\ lastOp' = Op("dialogUpdate", IF new = Null THEN "same" ELSE "new",
                           Str(currentWeather), h, <<>>)
  /\ UNCHANGED <<isGM, gameReady, api, settings, worldTime, calendar, scHook, net>>

\* a variant of the second part that goes on without asking for the write
DialogSaveSkipped ==
  /\ dialog.pc = "save"
  /\ dialog' = [dialog EXCEPT !.pc = "emit"]
  /\ lastOp' = Op("dialogSave", "", Str(dialog.newWeather), hud, <<>>)
  /\ UNCHANGED <<isGM, gameReady, api, hud, settings, worldTime, calendar,
                 scHook, net, ops>>

\* ... second part (line 650): _saveWeatherToFlag calls game.settings.set
\* and returns at its await
DialogSave ==
  /\ dialog.pc = "save"
  /\ dialog' = [dialog EXCEPT !.pc = "emit"]
  /\ net' = [net EXCEPT !.pendingWrites = Append(@, dialog.newWeather)]
  /\ lastOp' = Op("dialogSave", "", Str(dialog.newWeather), hud, <<>>)
  /\ UNCHANGED <<isGM, gameReady, api, hud, settings, worldTime, calendar, scHook, ops>>

\* ... third part (lines 653-657): game.socket.emit
DialogEmit ==
  /\ dialog.pc = "emit"
  /\ dialog' = [dialog EXCEPT !.pc = "idle", !.newWeather = <<>>]
  /\ net' = [net EXCEPT !.emitted =
               Append(@, [type |-> "weather-update",
                          weather |-> dialog.newWeather,
                          userId |-> LocalUser])]
  /\ lastOp' = Op("dialogEmit", "", Str(dialog.newWeather), hud, <<>>)
  /\ UNCHANGED <<isGM, gameReady, api, hud, settings, worldTime, calendar, scHook, ops>>

\* the dialog's cancel button
DialogCancel ==
  /\ \E currentWeather \in dialog.open :
       /\ dialog' = [dialog EXCEPT !.open = @ \ {currentWeather}]
       /\ lastOp' = Op("dialogCancel", "", Str(currentWeather), hud, <<>>)
  /\ UNCHANGED <<isGM, gameReady, api, hud, settings, worldTime, calendar, scHook, net>>

\* a deferred _ensureWeatherTextOnTop runs (lines 126-128, 214-216)
EnsureTopTimer ==
  /\ hud.pendingEnsureTop > 0
  /\ hud' = ensureWeatherTextOnTop([hud EXCEPT !.pendingEnsureTop = @ - 1])
  /\ lastOp' = Op("ensureTopTimer", "", Undefined, hud, <<>>)
  /\ UNCHANGED <<isGM, gameReady, api, settings, worldTime, calendar,
                 scHook, dialog, net>>

\* the deferred _loadWeatherFromFlag runs (lines 120-122, 762-764)
LoadWeatherTimer ==
  /\ hud.pendingLoadWeather > 0
  /\ hud' = loadWeatherFromFlag([hud EXCEPT !.pendingLoadWeather = @ - 1],
                                Env)
  /\ lastOp' = Op("loadWeatherTimer", "", Undefined, hud, <<>>)
  /\ UNCHANGED <<isGM, gameReady, api, settings, worldTime, calendar,
                 scHook, dialog, net>>

Next ==
  \/ Tick(MaxOps) /\ OnReady
  \/ Tick(MaxOps) /\ SettingChange
  \/ Tick(MaxOps) /\ ApiCall
  \/ Tick(MaxOps) /\ PeerWeatherChange
  \/ Tick(MaxOps) /\ ReceiveSocket
  \/ Tick(MaxOps) /\ UpdateWorldTime
  \/ Tick(MaxOps) /\ ClickTimeButton
  \/ Tick(MaxOps) /\ CalendarDateTimeChange
  \/ Tick(MaxOps) /\ DialogUpdate
  \/ DialogSave
  \/ DialogEmit
  \/ Free /\ ShowWeatherChangeDialog
  \/ Free /\ DialogCancel
  \/ Free /\ WriteComplete
  \/ Free /\ EnsureTopTimer
  \/ Free /\ LoadWeatherTimer

Spec == Init /\ [][Next]_vars

\* the weather label alone: its sources, the dialog, and the setters that
\* redraw or hide it
\* construction with setters that may throw, and the calls that follow it
NextReady ==
  \/ Tick(MaxOps) /\ OnReadyFaulty
  \/ Tick(MaxOps) /\ SettingChange
  \/ Tick(MaxOps) /\ ApiCall

SpecReady == Init /\ [][NextReady]_vars

\* the ready handler run more than once, with settings changes in between
NextRerun ==
  \/ Tick(MaxOps) /\ OnReady
  \/ Tick(MaxOps) /\ OnReadyAgain
  \/ Tick(MaxOps) /\ SettingChange

SpecRerun == Init /\ [][NextRerun]_vars

\* the clock: a GM's instance started at any time of day, then the world
\* time, the seconds flag and the angle offset change
TimeHours == 0..23
TimeMinutes == {0, 9, 59}
TimeAngles == {0, 45, 90, 360}

TimeInputs ==
  {d * 86400 + h * 3600 + m * 60 + s :
     d \in 0..MaxDays, h \in TimeHours, m \in TimeMinutes, s \in TimeMinutes}

TimeKeys == {"toggleSecondsDisplay", "customDialImageAngleOffset"}

InitTime ==
  /\ isGM = TRUE
  /\ gameReady = FALSE
  /\ api = FALSE
  /\ hud = BlankHud
  /\ \E angle \in TimeAngles :
       settings = [DefaultSettings EXCEPT
                     !.customDialImageAngleOffset = Num(angle)]
  /\ worldTime \in TimeInputs
  /\ calendar = "inactive"
  /\ scHook = FALSE
  /\ dialog = [open |-> {}, pc |-> "idle", newWeather |-> <<>>]
  /\ net = [pendingWrites |-> <<>>, emitted |-> <<>>]
  /\ lastOp = NoOp
  /\ ops = 0

NextTime ==
  \/ Tick(MaxOps) /\ OnReady
  \/ Tick(MaxOps) /\ SettingChangeOf(TimeKeys)
  \/ Tick(MaxOps) /\ UpdateWorldTime
  \/ Tick(MaxOps) /\ ClickTimeButton

SpecTime == InitTime /\ [][NextTime]_vars

\* the scale: api.setGlobalUiSize with small and ordinary scales, in
\* hundredths
ScaleInputs == (1..MaxScale) \cup {100, 150, 300}

\* what setGlobalUiSize is called with: the scales, and values it rejects
ScaleValues ==
  {Num(scale) : scale \in ScaleInputs} \cup {Num(0), Num(-5), NaN, Str(<<"1">>)}

SetScale ==
  /\ api
  /\ \E scale \in ScaleValues :
       \E h \in {setGlobalUiSize(hud, scale, Env)} :
           /\ hud' = Finish(h)
           /\ lastOp' = Op("call", "globalUiSize", scale, h, <<>>)
  /\ UNCHANGED <<isGM, gameReady, api, settings, worldTime, calendar, scHook,
                 dialog, net>>

NextScale ==
  \/ Tick(MaxOps) /\ OnReady
  \/ Tick(MaxOps) /\ SetScale

SpecScale == Init /\ [][NextScale]_vars

WeatherKeys == {"globalUiSize", "globalFontFamily", "toggleWeatherDisplay"}

NextWeather ==
  \/ Tick(MaxWeatherOps) /\ OnReady
  \/ Tick(MaxWeatherOps) /\ SettingChangeOf(WeatherKeys)
  \/ Tick(MaxWeatherOps) /\ PeerWeatherChange
  \/ Tick(MaxWeatherOps) /\ ReceiveSocket
  \/ Tick(MaxWeatherOps) /\ DialogUpdate
  \/ DialogSave
  \/ DialogEmit
  \/ Free /\ ShowWeatherChangeDialog
  \/ Free /\ DialogCancel
  \/ Free /\ WriteComplete
  \/ Free /\ EnsureTopTimer
  \/ Free /\ LoadWeatherTimer

SpecWeather == Init /\ [][NextWeather]_vars

\* the label on a network that reorders: this client is a GM, and a peer
\* GM runs the same dialog callback (lines 636-659); what the peer sent and
\* this client has not yet received is kept in net
InitNet ==
  /\ isGM = TRUE
  /\ gameReady = FALSE
  /\ api = FALSE
  /\ hud = BlankHud
  /\ settings \in StoredSettings
  /\ worldTime = 3661
  /\ calendar = "inactive"
  /\ scHook = FALSE
  /\ dialog = [open |-> {}, pc |-> "idle", newWeather |-> <<>>]
  /\ net = [pendingWrites |-> <<>>, emitted |-> <<>>,
            peerWrites |-> {}, peerBroadcasts |-> {}]
  /\ lastOp = NoOp
  /\ ops = 0

\* a peer GM confirms a label: its client requests the write of the world
\* setting (line 650) and emits the broadcast (lines 653-657)
PeerConfirm ==
  /\ gameReady
  /\ \E weather \in WeatherInputs :
       /\ net' = [net EXCEPT !.peerWrites = @ \cup {weather},
                             !.peerBroadcasts = @ \cup {weather}]
       /\ lastOp' = Op("peerConfirm", PeerUser, Str(weather), hud, <<>>)
  /\ UNCHANGED <<isGM, gameReady, api, hud, settings, worldTime, calendar,
                 scHook, dialog>>

\* a peer's write is stored and this client's onChange runs
PeerWriteStored ==
  /\ \E weather \in net.peerWrites :
       /\ ApplyWeatherSetting("peerWrite", weather)
       /\ net' = [net EXCEPT !.peerWrites = @ \ {weather}]
  /\ UNCHANGED <<isGM, gameReady, api, worldTime, calendar, scHook, dialog>>

\* a peer's broadcast reaches this client's socket handler
PeerBroadcastDelivered ==
  /\ api
  /\ \E weather \in net.peerBroadcasts :
       \E data \in {[type |-> "weather-update", weather |-> weather,
                     userId |-> PeerUser]} :
       \E h \in {onSocketMessage(hud, data)} :
           /\ hud' = Finish(h)
           /\ net' = [net EXCEPT !.peerBroadcasts = @ \ {weather}]
           /\ lastOp' = Op("socket", data.userId, Str(data.weather), h,
                           <<data.type>>)
  /\ UNCHANGED <<isGM, gameReady, api, settings, worldTime, calendar, scHook,
                 dialog>>

NextNet ==
  \/ Tick(MaxWeatherOps) /\ OnReady
  \/ Tick(MaxWeatherOps) /\ DialogUpdate
  \/ Tick(MaxWeatherOps) /\ PeerConfirm
  \/ DialogSave
  \/ DialogEmit
  \/ Free /\ ShowWeatherChangeDialog
  \/ Free /\ DialogCancel
  \/ Free /\ WriteComplete
  \/ Free /\ PeerWriteStored
  \/ Free /\ PeerBroadcastDelivered
  \/ Free /\ EnsureTopTimer
  \/ Free /\ LoadWeatherTimer

SpecNet == InitNet /\ [][NextNet]_vars

(***************************************************************************)
(* Properties                                                              *)
(***************************************************************************)
\* the weather text, where it exists, is the last child of the main
\* container
WeatherTextOnTop(h) ==
  h.weatherText # Null =>
    /\ h.children # <<>>
    /\ h.children[Len(h.children)] = h.weatherText.id

\* the last handler was a setter that accepted its value
Accepted(key) ==
  /\ api
  /\ lastOp.name \in {"set", "call"}
  /\ lastOp.key = key
  /\ ~lastOp.warned
  /\ ~lastOp.threw

\* the last handler ran a full redraw or a weather update to its end
FullRedrawDone ==
  \/ Accepted("globalUiSize")
  \/ /\ Accepted("globalFontFamily")
     /\ lastOp.arg.t = "string"
     /\ trim(lastOp.arg.v) # <<>>
  \/ /\ api
     /\ lastOp.name = "socket"
     /\ lastOp.calls = <<"weather-update">>
     /\ lastOp.key # LocalUser
  \/ /\ api
     /\ lastOp.name \in {"peerWrite", "writeComplete", "loadWeatherTimer"}
  \/ lastOp.name = "dialogUpdate" /\ lastOp.key = "new"

\* C1: when the constructor, setGlobalUiSize with an accepted scale,
\* setGlobalFontFamily with a non-empty name, or a weather update (socket
\* message, settings change, deferred load, dialog) has run to its end,
\* the weather text, if it exists, is the last child of the main
\* container, for GM and non-GM and with or without a dial texture.
C1_WeatherTextLastAfterRedraw ==
  /\ lastOp.name = "construct" /\ ~lastOp.threw =>
        WeatherTextOnTop(constructor(Env, TRUE))
  /\ FullRedrawDone => WeatherTextOnTop(hud)

\* a GM's scale change has redrawn a scene that holds the hit-test region
\* but no dial sprite, and the weather text is on top of it
C1_Witness ==
  /\ isGM
  /\ Accepted("globalUiSize")
  /\ hud.dialInteractiveArea # Null
  /\ hud.dialGradientSprite = Null
  /\ hud.weatherText # Null
  /\ Len(hud.children) > 2
  /\ WeatherTextOnTop(hud)

\* C2: a 'weather-update' socket message carrying the local user's id
\* changes neither the local weather label nor the weather text; one
\* carrying another user's id sets the local label to the message's
\* weather.
C2_SocketEchoIgnored ==
  [][ (lastOp'.name = "socket" /\ lastOp'.calls = <<"weather-update">>) =>
        IF lastOp'.key = LocalUser
        THEN /\ hud'.currentWeather = hud.currentWeather
             /\ hud'.weatherText = hud.weatherText
        ELSE hud'.currentWeather = lastOp'.arg.v ]_vars

\* the client has just received its own broadcast of a label other than
\* the one it shows
C2_Witness ==
  /\ api
  /\ lastOp.name = "socket"
  /\ lastOp.calls = <<"weather-update">>
  /\ lastOp.key = LocalUser
  /\ lastOp.arg = Str(RAINY)
  /\ hud.currentWeather = DEFAULT_WEATHER
  /\ hud.weatherText # Null
  /\ hud.weatherText.text = DEFAULT_WEATHER

Last(seq) == seq[Len(seq)]

\* C3 as stated: when the 'weather-update' broadcast is emitted, the
\* persisted 'currentWeather' setting already equals the new label.
C3_PersistedBeforeEmit ==
  lastOp.name = "dialogEmit" => settings.currentWeather = lastOp.arg

\* C3 amended: when a GM confirms a weather change the local label is
\* updated first, then the write of the new label to the 'currentWeather'
\* setting is requested without waiting for it, then the broadcast is
\* emitted; when the broadcast is emitted the write has been requested and
\* is still in flight.
C3_RequestedBeforeEmit ==
  /\ dialog.pc \in {"save", "emit"} =>
        /\ isGM
        /\ hud.currentWeather = dialog.newWeather
        /\ hud.weatherText # Null =>
              hud.weatherText.text = toUpperCase(dialog.newWeather)
  /\ dialog.pc = "emit" =>
        /\ net.pendingWrites # <<>>
        /\ Last(net.pendingWrites) = dialog.newWeather
  /\ lastOp.name = "dialogEmit" =>
        /\ net.emitted # <<>>
        /\ Last(net.emitted) = [type |-> "weather-update",
                                weather |-> lastOp.arg.v,
                                userId |-> LocalUser]
        /\ net.pendingWrites # <<>>
        /\ Last(net.pendingWrites) = lastOp.arg.v
        /\ hud.currentWeather = lastOp.arg.v

\* the broadcast of a new label has just been emitted while the setting
\* still holds the old one
C3_Witness ==
  /\ lastOp.name = "dialogEmit"
  /\ settings.currentWeather # lastOp.arg
  /\ Last(net.pendingWrites) = lastOp.arg.v
  /\ Last(net.emitted).weather = lastOp.arg.v
  /\ hud.currentWeather = lastOp.arg.v

ButtonKinds == {"rewindHour", "rewindDay", "advanceHour", "advanceDay"}

\* the kinds of the main container's children
ChildKinds(h) == {h.children[i][1] : i \in 1..Len(h.children)}

InScene(h, node) ==
  node # Null /\ \E i \in 1..Len(h.children) : h.children[i] = node.id

\* C4: a non-GM client has none of the four time buttons and no hit-test
\* region in its scene, its dial image container takes no right click,
\* and it never requests a write of the weather nor broadcasts it; a GM
\* client has the four buttons, bound to game.time.advance of -3600,
\* -86400, 3600 and 86400 seconds, and the hit-test region, bound to the
\* weather dialog, in its scene after every full redraw.
C4_ControlsOnlyForGM ==
  /\ ~isGM =>
        /\ Buttons(hud) = {}
        /\ hud.dialInteractiveArea = Null
        /\ ChildKinds(hud) \cap (ButtonKinds \cup {"dialInteractiveArea"}) = {}
        /\ hud.dialGradientContainer # Null =>
              /\ ~hud.dialGradientContainer.interactive
              /\ ~hud.dialGradientContainer.rightclick
        /\ DialogSources(hud) = {"call"}
        /\ dialog.open = {}
        /\ net.pendingWrites = <<>>
        /\ net.emitted = <<>>
  /\ isGM /\ api =>
        /\ InScene(hud, hud.rewindHourButton)
        /\ InScene(hud, hud.rewindDayButton)
        /\ InScene(hud, hud.advanceHourButton)
        /\ InScene(hud, hud.advanceDayButton)
        /\ hud.rewindHourButton.delta = REWIND_HOUR
        /\ hud.rewindDayButton.delta = REWIND_DAY
        /\ hud.advanceHourButton.delta = ADVANCE_HOUR
        /\ hud.advanceDayButton.delta = ADVANCE_DAY
        /\ \A button \in Buttons(hud) : button.interactive
        /\ InScene(hud, hud.dialInteractiveArea)
        /\ hud.dialInteractiveArea.interactive
        /\ "dialInteractiveArea" \in DialogSources(hud)

\* a non-GM client has redrawn a scene that holds a dial image
C4_Witness ==
  /\ ~isGM
  /\ Accepted("globalUiSize")
  /\ hud.dialGradientContainer # Null
  /\ hud.weatherText # Null
  /\ hud.timeText # Null

OpacityKeys == {"topBarOpacity", "dialImageOpacity", "dialMarkerOpacity",
                "globalFontOpacity"}

\* C5: a call of setTopBarOpacity, setDialImageOpacity,
\* setDialMarkerOpacity or setGlobalFontOpacity with a number outside
\* [0,1] or with a non-number leaves the instance and its scene as they
\* were, does not throw, and logs a warning.
C5_OpacityRejectedWithWarning ==
  [][ ( /\ api
        /\ lastOp'.name \in {"set", "call"}
        /\ lastOp'.key \in OpacityKeys
        /\ ~validOpacity(lastOp'.arg) ) =>
      ( /\ hud' = hud
        /\ ~lastOp'.threw
        /\ lastOp'.warned ) ]_vars

\* the range declared at the registration of a numeric option
\* (sizes, opacities and scales in hundredths, the angle in degrees)
DeclaredRange(key) ==
  CASE key = "globalUiSize" -> [min |-> 20, max |-> 300]
    [] key = "globalFontOpacity" -> [min |-> 10, max |-> 100]
    [] key = "customDialImageScale" -> [min |-> 10, max |-> 500]
    [] key = "customDialImageAngleOffset" -> [min |-> 0, max |-> 360]

RangedKeys == {"globalUiSize", "globalFontOpacity", "customDialImageScale",
               "customDialImageAngleOffset"}

OutsideDeclaredRange(key, value) ==
  /\ value.t = "number"
  /\ \/ value.v < DeclaredRange(key).min
     \/ value.v > DeclaredRange(key).max

\* C6: a call of setGlobalUiSize, setGlobalFontOpacity,
\* setCustomDialImageScale or setCustomDialImageAngleOffset with a number
\* outside the range declared for its option leaves every instance field
\* and the scene as they were before the call.
C6_OutsideDeclaredRangeRejected ==
  [][ ( /\ api
        /\ lastOp'.name \in {"set", "call"}
        /\ lastOp'.key \in RangedKeys
        /\ OutsideDeclaredRange(lastOp'.key, lastOp'.arg) ) =>
      hud' = hud ]_vars

\* how many times the setter of a key was called by the ready handler
CallsOf(key) == Cardinality({i \in DOMAIN lastOp.calls : lastOp.calls[i] = key})

Constructed == lastOp.name = "construct" /\ ~lastOp.threw

\* C7 as stated: when onReady constructs the instance, every stored
\* option, currentWeather included, is passed to its setter exactly once,
\* setGlobalUiSize first, whether or not a setter throws.
C7_EveryStoredOptionReplayed ==
  Constructed =>
    /\ \A key \in DOMAIN settings : CallsOf(key) = 1
    /\ Head(lastOp.calls) = "globalUiSize"

\* C7: when onReady constructs the instance, every stored option but
\* currentWeather is passed to its setter exactly once, in the order of
\* settingsToApply with setGlobalUiSize first, and a setter that throws
\* does not stop the setters after it: they are called and take effect.
\* currentWeather has no setter and is not replayed.
C7_SettersReplayedOnce ==
  Constructed =>
    /\ lastOp.calls = settingsToApply
    /\ \A key \in DOMAIN settings \ {"currentWeather"} : CallsOf(key) = 1
    /\ CallsOf("currentWeather") = 0
    /\ Head(lastOp.calls) = "globalUiSize"
    /\ hud.globalFontOpacity = settings.globalFontOpacity.v
    /\ hud.topBarOpacity = settings.topBarOpacity.v
    /\ hud.displaySeconds = settings.toggleSecondsDisplay.v

\* the instance was constructed although the font family setter threw:
\* the stored family was not applied, the stored font opacity was
C7_Witness ==
  /\ Constructed
  /\ settings = CustomSettings
  /\ hud.globalFontFamily # settings.globalFontFamily.v
  /\ hud.globalFontOpacity = settings.globalFontOpacity.v

\* the display objects C8 names: the text nodes, the buttons, the dial
\* sprite and its mask
NodeFields == {"timeText", "timeCalendarSeparator", "calendarText",
               "weatherText", "rewindHourButton", "rewindDayButton",
               "advanceHourButton", "advanceDayButton",
               "dialGradientSprite", "dialMask"}

DialFields == {"dialGradientSprite", "dialMask"}

\* which object each field refers to
Identities(h, fields) ==
  [f \in fields |-> IF h[f] = Null THEN <<"null", 0>> ELSE h[f].id]

SinglePropertyKeys == {"topBarOpacity", "dialMarkerColor",
                       "dialMarkerOpacity", "dialImageOpacity",
                       "toggleCalendarDisplay", "toggleWeatherDisplay",
                       "toggleDialMarker"}

FullRedrawKeys == {"globalUiSize", "globalFontFamily"}

DialImageKeys == {"customDialImage", "customDialImageScale"}

\* a setter was called, by a settings change or directly
SetterCalled == lastOp'.name \in {"set", "call"}

\* the seven single-property setters keep every node and destroy nothing
SingleSettersKeepNodes ==
  (SetterCalled /\ lastOp'.key \in SinglePropertyKeys) =>
    /\ Identities(hud', NodeFields) = Identities(hud, NodeFields)
    /\ hud'.destroyed = hud.destroyed

\* C8 as stated: the seven single-property setters keep the identity of
\* the text nodes, the buttons and the dial sprite and mask, and no
\* setter but setGlobalUiSize and setGlobalFontFamily replaces any of
\* these nodes.
C8_OnlyFullRedrawReplacesNodes ==
  [][ /\ SingleSettersKeepNodes
      /\ (SetterCalled /\ lastOp'.key \notin FullRedrawKeys) =>
           Identities(hud', NodeFields) = Identities(hud, NodeFields) ]_vars

\* C8: the seven single-property setters keep the identity of the text
\* nodes, the buttons and the dial sprite and mask and destroy nothing;
\* a setter that replaces one of these nodes is setGlobalUiSize or
\* setGlobalFontFamily, or it is setCustomDialImage or
\* setCustomDialImageScale, which replace the dial sprite and mask only.
C8_SingleSettersKeepNodes ==
  [][ /\ SingleSettersKeepNodes
      /\ (SetterCalled /\ lastOp'.key \notin FullRedrawKeys \cup DialImageKeys)
           => Identities(hud', NodeFields) = Identities(hud, NodeFields)
      /\ (SetterCalled /\ lastOp'.key \in DialImageKeys) =>
           Identities(hud', NodeFields \ DialFields) =
             Identities(hud, NodeFields \ DialFields) ]_vars

\* a single-property setter has been applied to a scene that holds the
\* text nodes and the dial sprite
C8_Witness ==
  /\ api
  /\ lastOp.name \in {"set", "call"}
  /\ lastOp.key \in SinglePropertyKeys
  /\ ~lastOp.warned
  /\ hud.timeText # Null
  /\ hud.weatherText # Null
  /\ hud.dialGradientSprite # Null

\* every field that holds a display object
PrimitiveFields == NodeFields \cup
  {"timeCalendarContainer", "timeBarGraphic", "mainHudAreaGraphic",
   "radialDialBackground", "dialMarker", "dialGradientContainer",
   "dialInteractiveArea"}

\* how many children of the main container are of a kind
KindCount(h, kind) ==
  Cardinality({i \in DOMAIN h.children : h.children[i][1] = kind})

\* the handler recorded in op ran _redrawAllElements
RedrawnBy(op) ==
  /\ op.name \in {"set", "call"}
  /\ ~op.warned /\ ~op.threw
  /\ \/ op.key = "globalUiSize"
     \/ op.key = "globalFontFamily" /\ op.arg.v # <<>>

\* no destroyed object is a child of the main container or held by a field
NoDanglingPrimitive(h) ==
  /\ \A i \in DOMAIN h.children : h.children[i] \notin h.destroyed
  /\ \A f \in PrimitiveFields : h[f] # Null => h[f].id \notin h.destroyed

\* C9: a further run of _redrawAllElements on a drawn scene, with the
\* scale, the font, the weather label and the settings unchanged, leaves
\* the main container with the same number and kinds of children, has
\* destroyed every object it replaced, and leaves no destroyed object as
\* a child of the main container or in an instance field.
C9_RedrawIdempotentLeakFree ==
  [][ ( /\ api
        /\ RedrawnBy(lastOp')
        /\ settings' = settings
        /\ hud'.globalUiScale = hud.globalUiScale
        /\ hud'.globalFontFamily = hud.globalFontFamily
        /\ hud'.currentWeather = hud.currentWeather ) =>
      ( /\ Len(hud'.children) = Len(hud.children)
        /\ \A kind \in ChildKinds(hud) \cup ChildKinds(hud') :
             KindCount(hud', kind) = KindCount(hud, kind)
        /\ \A f \in PrimitiveFields :
             (hud[f] # Null /\ Identities(hud', {f}) # Identities(hud, {f}))
               => hud[f].id \in hud'.destroyed
        /\ NoDanglingPrimitive(hud') ) ]_vars

\* the font family stored at start-up has been set again: the second
\* full redraw of an unchanged scene
C9_Witness ==
  /\ api
  /\ ops = 2
  /\ RedrawnBy(lastOp)
  /\ lastOp.key = "globalFontFamily"
  /\ settings = CustomSettings
  /\ hud.weatherText # Null
  /\ hud.destroyed # {}

\* C10: whenever no handler is in the middle of its run and the weather
\* text node exists, its text is the upper-cased local weather label.
C10_WeatherTextUpperCased ==
  (dialog.pc = "idle" /\ hud.weatherText # Null) =>
    hud.weatherText.text = toUpperCase(hud.currentWeather)

\* after a full redraw the node shows CLEAR for the label 'clear' that a
\* peer broadcast
C10_Witness ==
  /\ dialog.pc = "idle"
  /\ RedrawnBy(lastOp)
  /\ hud.weatherText # Null
  /\ hud.currentWeather = LOWER_CLEAR
  /\ hud.weatherText.text = DEFAULT_WEATHER

\* C11: when the weather dialog is submitted with a label that equals the
\* current weather label up to letter case, nothing changes: the handler
\* takes a label as new only if it differs from the current one by more
\* than case.
C11_SameUpToCaseIsNoChange ==
  [][ (lastOp'.name = "dialogUpdate" /\ lastOp'.key = "new") =>
      toLowerCase(dialog'.newWeather) # toLowerCase(hud.currentWeather) ]_vars

\* C12: while the show-weather flag is off, that is from an applied
\* setToggleWeatherDisplay(false) until setToggleWeatherDisplay(true), the
\* weather text node is not visible, whatever weather update, broadcast,
\* weather load, full redraw or deferred callback has run since.
C12_WeatherHiddenWhileFlagOff ==
  ( /\ api
    /\ dialog.pc = "idle"
    /\ hud.weatherText # Null
    /\ settings.toggleWeatherDisplay = Bool(FALSE) ) =>
  ~hud.weatherText.visible

\* the image the dial is configured with (lines 438-439)
ConfiguredImage ==
  IF Truthy(settings.customDialImage) THEN settings.customDialImage.v
  ELSE IMAGE_DEFAULT

\* the last handler ran _createDialGradientAndMask: construction, a full
\* redraw, or a change of the dial image or of its scale
DialDrawn ==
  \/ Constructed
  \/ RedrawnBy(lastOp)
  \/ lastOp.name = "set" /\ lastOp.key \in DialImageKeys /\ ~lastOp.threw

\* the primitives that do not depend on the dial texture
TextureFreeFields == {"timeBarGraphic", "dialMarker", "timeCalendarContainer",
                      "timeText", "timeCalendarSeparator", "calendarText",
                      "weatherText"}

\* C13: when the dial texture cannot be loaded, the handler that draws the
\* dial ends without an exception, no dial sprite, mask or dial container
\* exists, the bar, the marker, the text group and the weather text are
\* drawn, and a GM has exactly one hit-test region in the main container
\* (a player has none).
C13_TextureFailureDegrades ==
  (api /\ DialDrawn /\ textureFrom(ConfiguredImage) # "ok") =>
    /\ ~lastOp.threw
    /\ hud.dialGradientSprite = Null
    /\ hud.dialMask = Null
    /\ hud.dialGradientContainer = Null
    /\ KindCount(hud, "dialContainer") = 0
    /\ \A f \in TextureFreeFields : hud[f] # Null
    /\ \A f \in {"timeBarGraphic", "dialMarker", "timeCalendarContainer",
                  "weatherText"} : InScene(hud, hud[f])
    /\ KindCount(hud, "dialInteractiveArea") = (IF isGM THEN 1 ELSE 0)
    /\ isGM => InScene(hud, hud.dialInteractiveArea)

\* a GM's scene has been redrawn in full while the configured image has
\* no texture
C13_Witness ==
  /\ api /\ isGM
  /\ RedrawnBy(lastOp)
  /\ textureFrom(ConfiguredImage) = "empty"
  /\ hud.dialInteractiveArea # Null
  /\ hud.dialGradientSprite = Null

\* what updateCalendarDisplay may leave in the calendar text
CalendarTexts == {"SC not active", "SC: No object", "SC: No date",
                  "SC: API Err", PROVIDER_DATE, FORMATTED_DATE}

\* C14: whatever the state of the calendar provider, no handler ends with
\* an exception raised by updateCalendarDisplay, and the calendar text
\* shows one of the fixed placeholders or the provider's date.
C14_CalendarFailureContained ==
  /\ ~lastOp.threw
  /\ (api /\ hud.calendarText # Null) =>
       hud.calendarText.text \in CalendarTexts

\* the number a two-digit field of a time string shows, -1 when the two
\* characters at i are not both digits
FieldAt(text, i) ==
  IF i + 1 <= Len(text) /\ IndexIn(text[i], DigitChars) > 0
                        /\ IndexIn(text[i + 1], DigitChars) > 0
  THEN 10 * (IndexIn(text[i], DigitChars) - 1)
       + (IndexIn(text[i + 1], DigitChars) - 1)
  ELSE -1

\* text is HH:MM, or HH:MM:SS when seconds are shown, with every field
\* two digits and in range
WellFormedTime(text, withSeconds) ==
  /\ Len(text) = (IF withSeconds THEN 8 ELSE 5)
  /\ FieldAt(text, 1) \in 0..23
  /\ text[3] = ":"
  /\ FieldAt(text, 4) \in 0..59
  /\ withSeconds => (text[6] = ":" /\ FieldAt(text, 7) \in 0..59)

\* C15: for every world time the host holds, negative ones reached by
\* rewinding included, the time text shows an hour in [0,24), a minute in
\* [0,60) and, when seconds are shown, a second in [0,60), each as a
\* two-digit field.
C15_TimeFieldsInRange ==
  (api /\ hud.timeText # Null) =>
    WellFormedTime(hud.timeText.text, hud.displaySeconds)

\* C16: for a world time d*86400 + h*3600 + m*60 + s with d >= 0, the time
\* text is the zero-padded HH:MM of h and m, followed by :SS of s when
\* seconds are shown.
C16_TimeRoundTrip ==
  (api /\ hud.timeText # Null /\ worldTime >= 0) =>
    /\ WellFormedTime(hud.timeText.text, hud.displaySeconds)
    /\ FieldAt(hud.timeText.text, 1) = (worldTime % 86400) \div 3600
    /\ FieldAt(hud.timeText.text, 4) = (worldTime % 3600) \div 60
    /\ hud.displaySeconds => FieldAt(hud.timeText.text, 7) = worldTime % 60

\* 09:09:09 on a later day is shown with its seconds
C16_Witness ==
  /\ api
  /\ lastOp.name = "set" /\ lastOp.key = "toggleSecondsDisplay"
  /\ hud.displaySeconds
  /\ worldTime = 86400 + 9 * 3600 + 9 * 60 + 9
  /\ hud.timeText # Null
  /\ hud.timeText.text = <<"0","9",":","0","9",":","0","9">>

\* rotations are counted in 86400ths of a turn: one per second of the day
DegreesToRotation(degrees) == degrees * 240

\* the angle the dial is turned by beyond the rotation of the time of day
OffsetRotation(h) ==
  h.dialGradientSprite.rotation - JsRem(worldTime, 86400)

\* C17: for every configured angle offset from 0 to 360 degrees, 0 and 360
\* included, the sprite is rotated by the rotation of the time of day plus
\* exactly that offset.
C17_RotationUsesConfiguredOffset ==
  (api /\ hud.dialGradientSprite # Null) =>
    OffsetRotation(hud) =
      DegreesToRotation(settings.customDialImageAngleOffset.v)

\* the offset _updateDialRotation adds (line 546)
UsedOffset ==
  IF Truthy(settings.customDialImageAngleOffset)
  THEN settings.customDialImageAngleOffset.v ELSE 90

\* the rotation of a whole clock hour: (hour / 24) of a turn
HourRotation(hour) == hour * 3600

\* C18: the rotation of the time of day is that of the derived hour
\* floor(worldTime / 3600) mod 24, so that all world times of one clock
\* hour, and world times 24 hours apart, turn the dial alike.
C18_BaseRotationFromWholeHour ==
  (api /\ hud.dialGradientSprite # Null /\ worldTime >= 0) =>
    hud.dialGradientSprite.rotation - DegreesToRotation(UsedOffset) =
      HourRotation((worldTime \div 3600) % 24)

\* the text nodes drawn with the global font family
FontFields == {"timeText", "timeCalendarSeparator", "calendarText",
               "weatherText"}

EmptyString(value) == value.t = "string" /\ value.v = <<>>

\* C19: after setGlobalFontFamily('') the stored font family is the
\* built-in default and the text nodes are rendered with it; after a
\* whitespace-only or non-string value the font family is the one before.
C19_EmptyFontFamilyFallsBack ==
  [][ (api /\ SetterCalled /\ lastOp'.key = "globalFontFamily") =>
      /\ EmptyString(lastOp'.arg) =>
           /\ hud'.globalFontFamily = DEFAULT_FONT_FAMILY
           /\ \A f \in FontFields :
                hud'[f] # Null => hud'[f].fontFamily = DEFAULT_FONT_FAMILY
      /\ ( \/ lastOp'.arg.t # "string"
           \/ ~EmptyString(lastOp'.arg) /\ trim(lastOp'.arg.v) = <<>> ) =>
           hud' = hud ]_vars

\* C20: after _calculateScaledDimensions with any scale above 0 the
\* primary font size is at least 8, the icon font size at least 10, the
\* marker size at least 5, and the HUD width, the heights, the padding and
\* the dial radius are not negative.
C20_ReadabilityFloors ==
  api =>
    /\ hud.globalUiScale > 0
    /\ hud.primaryFontSize >= 8
    /\ hud.iconFontSize >= 10
    /\ hud.MARKER_SIZE >= 5
    /\ hud.HUD_WIDTH >= 0
    /\ hud.TIME_BAR_HEIGHT >= 0
    /\ hud.MAIN_HUD_AREA_HEIGHT >= 0
    /\ hud.TOTAL_HUD_HEIGHT >= 0
    /\ hud.PADDING >= 0
    /\ hud.DIAL_RADIUS >= 0

\* the smallest scale has been set: the three floors are what is used
C20_Witness ==
  /\ api
  /\ lastOp.name = "call" /\ lastOp.key = "globalUiSize"
  /\ hud.globalUiScale = 1
  /\ hud.primaryFontSize = 8
  /\ hud.iconFontSize = 10
  /\ hud.MARKER_SIZE = 5
  /\ hud.PADDING = 0

\* C21: after every scale computation the time bar is as high as its two
\* paddings and the primary font, the HUD as high as the time bar and the
\* main area, the dial radius is 0.8 of the main area's height less the
\* padding (kept in tenths), and the dial arc is centred at the foot of
\* the time bar; at scale 1.0 the width is 400, the time bar 32, the main
\* area 150, the total height 182 and the dial radius 112.
C21_DerivationRules ==
  api =>
    /\ hud.TIME_BAR_HEIGHT = hud.TIME_BAR_TEXT_TOP_PADDING
                               + hud.primaryFontSize
                               + hud.TIME_BAR_TEXT_BOTTOM_PADDING
    /\ hud.TOTAL_HUD_HEIGHT = hud.TIME_BAR_HEIGHT + hud.MAIN_HUD_AREA_HEIGHT
    /\ hud.DIAL_RADIUS = (hud.MAIN_HUD_AREA_HEIGHT - hud.PADDING) * 8
    /\ hud.DIAL_ARC_CENTER_Y = hud.TIME_BAR_HEIGHT
    /\ hud.globalUiScale = 100 =>
         /\ hud.HUD_WIDTH = 400
         /\ hud.TIME_BAR_HEIGHT = 32
         /\ hud.MAIN_HUD_AREA_HEIGHT = 150
         /\ hud.TOTAL_HUD_HEIGHT = 182
         /\ hud.DIAL_RADIUS = 1120

\* setGlobalUiSize(1.0) has recomputed the dimensions of a HUD that had
\* another scale
C21_Witness ==
  /\ api
  /\ settings.globalUiSize = Num(150)
  /\ lastOp.name = "call" /\ lastOp.key = "globalUiSize"
  /\ hud.globalUiScale = 100
  /\ hud.TOTAL_HUD_HEIGHT = 182

\* the fields _calculateScaledDimensions assigns
DimensionFields ==
  {"HUD_WIDTH", "primaryFontSize", "calendarFontSize", "iconFontSize",
   "TIME_BAR_TEXT_TOP_PADDING", "TIME_BAR_TEXT_BOTTOM_PADDING",
   "TIME_BAR_HEIGHT", "MAIN_HUD_AREA_HEIGHT", "TOTAL_HUD_HEIGHT",
   "CORNER_RADIUS", "PADDING", "BUTTON_PADDING", "DIAL_CENTER_X",
   "MAIN_HUD_AREA_Y_OFFSET", "DIAL_RADIUS", "DIAL_ARC_CENTER_Y",
   "MARKER_SIZE", "weatherTextPaddingTop"}

ScaleProfile(h) == [f \in DimensionFields |-> h[f]]

\* the profile of a scale computed on an instance with no history
FreshProfile(scale) ==
  ScaleProfile(calculateScaledDimensions(
                 [BlankHud EXCEPT !.globalUiScale = scale]))

\* C22: after any sequence of setGlobalUiSize calls the dimension fields
\* and the renderer size are those of the last accepted scale alone; an
\* accepted call makes its scale the current one, a rejected call changes
\* no dimension field.
C22_ProfileOfLastAcceptedScale ==
  [][ api' =>
      /\ ScaleProfile(hud') = FreshProfile(hud'.globalUiScale)
      /\ hud'.pixiApp.width = hud'.HUD_WIDTH
      /\ hud'.pixiApp.height = hud'.TOTAL_HUD_HEIGHT
      /\ (api /\ SetterCalled /\ lastOp'.key = "globalUiSize") =>
           IF lastOp'.warned
           THEN /\ ScaleProfile(hud') = ScaleProfile(hud)
                /\ hud'.globalUiScale = hud.globalUiScale
           ELSE hud'.globalUiScale = lastOp'.arg.v ]_vars

\* the scale stored at start-up was applied after the constructor's 1.0,
\* and a call has then been rejected
C22_Witness ==
  /\ api
  /\ lastOp.name = "call" /\ lastOp.key = "globalUiSize"
  /\ lastOp.warned
  /\ hud.globalUiScale = 150
  /\ hud.HUD_WIDTH = 600

\* a run of onReady executed the constructor
ConstructorRan == lastOp'.name = "construct" /\ ops' = ops + 1

ReAddingKeys == {"dialMarkerColor", "dialMarkerOpacity", "customDialImage",
                 "customDialImageScale"}

\* no deferred callback is waiting to run
NoTimerPending == hud.pendingEnsureTop = 0 /\ hud.pendingLoadWeather = 0

\* C24: after setDialMarkerColor, setDialMarkerOpacity, setCustomDialImage
\* or setCustomDialImageScale has returned and no deferred callback is
\* pending, the weather text, if present, is the last child of the main
\* container.
C24_WeatherTextStaysTopmost ==
  (/\ api
   /\ lastOp.name \in {"set", "call"}
   /\ lastOp.key \in ReAddingKeys
   /\ NoTimerPending)
  => WeatherTextOnTop(hud)

\* every write, notification, broadcast and deferred callback has been
\* delivered
Quiescent ==
  /\ dialog.pc = "idle"
  /\ net.pendingWrites = <<>>
  /\ net.peerWrites = {}
  /\ net.peerBroadcasts = {}
  /\ NoTimerPending

\* C25: the last write wins and nothing reconciles afterwards: a stored
\* write makes its label the persisted one and this client's label, a
\* peer's broadcast makes its label this client's label whatever is
\* persisted; an execution exists that ends, with everything delivered,
\* with a local label different from the persisted one.
C25_LastWriteWins ==
  [][ /\ lastOp'.name \in {"peerWrite", "writeComplete"} =>
           /\ settings'.currentWeather = lastOp'.arg
           /\ api => hud'.currentWeather = lastOp'.arg.v
      /\ (lastOp'.name = "socket" /\ net'.peerBroadcasts # net.peerBroadcasts) =>
           /\ hud'.currentWeather = lastOp'.arg.v
           /\ settings' = settings ]_vars

\* this GM confirmed one label and a peer GM another; all is delivered, the
\* persisted label is this client's and the displayed one the peer's
C25_Witness ==
  /\ api
  /\ Quiescent
  /\ net.emitted # <<>>
  /\ settings.currentWeather = Str(Last(net.emitted).weather)
  /\ lastOp.name = "socket"
  /\ hud.currentWeather = lastOp.arg.v
  /\ hud.currentWeather # settings.currentWeather.v

\* the dialog's callback ran and applied nothing; the select always holds a
\* label, so the label confirmed was the one captured when the dialog opened
ConfirmedWithoutChange ==
  /\ lastOp'.name = "dialogUpdate"
  /\ lastOp'.key = "same"
  /\ dialog' # dialog

\* C26: a confirmation whose label differs from the instance's label at the
\* moment of confirmation is applied, also when the label changed while the
\* dialog was open; so a confirmation that applies nothing confirmed the
\* instance's label of that moment.
C26_JudgedAgainstLiveLabel ==
  [][ConfirmedWithoutChange => lastOp'.arg.v = hud.currentWeather]_vars

\* the rotation _updateDialRotation gives the sprite for the current world
\* time and the configured offset
CurrentRotation ==
  updateDialRotation(hud, Env).dialGradientSprite.rotation

\* C27: whenever no handler is running and the dial sprite exists, its
\* rotation is the one computed from the current world time and the
\* configured offset, also right after setCustomDialImage and
\* setCustomDialImageScale have recreated the sprite.
C27_RotationFollowsWorldTime ==
  (api /\ dialog.pc = "idle" /\ hud.dialGradientSprite # Null)
  => hud.dialGradientSprite.rotation = CurrentRotation

\* the calendar text and its separator are both hidden
CalendarHidden(h) ==
  /\ h.calendarText # Null /\ ~h.calendarText.visible
  /\ h.timeCalendarSeparator # Null /\ ~h.timeCalendarSeparator.visible

\* the calendar text or its separator is shown
CalendarShown(h) ==
  \/ h.calendarText # Null /\ h.calendarText.visible
  \/ h.timeCalendarSeparator # Null /\ h.timeCalendarSeparator.visible

\* C28: once setToggleCalendarDisplay(false) has hidden the calendar text
\* and the separator, they stay invisible until setToggleCalendarDisplay
\* is called with true, also across setGlobalUiSize, setGlobalFontFamily
\* and world-time updates.
C28_CalendarStaysHidden ==
  [][ (api /\ CalendarHidden(hud) /\ CalendarShown(hud')) =>
        /\ lastOp'.name \in {"set", "call"}
        /\ lastOp'.key = "toggleCalendarDisplay"
        /\ Truthy(lastOp'.arg) ]_vars

====
